---- MODULE Spec2Model ----
(***************************************************************************)
(* Model of the task runner of build-tools.ts: runTask decides from the    *)
(* modification instants of a task's targets and sources whether the task  *)
(* body has to run, logs its decision, and awaits the body.                *)
(*                                                                         *)
(* Spec      one task called again and again on a filesystem its body      *)
(*           leaves as it is: every shape of targets and sources.          *)
(* SpecBuild the task body writes its targets, starting from a clean       *)
(*           state in which no target exists.                              *)
(* SpecRetry the same, with a directory target written file by file, so    *)
(*           that a failing body can leave it half-written.                *)
(* SpecExec  one call of an executor, run or runCapture, and the events    *)
(*           of the child process it spawned.                              *)
(* SpecDeps  one call of allDepsSorted on a dependency map.                *)
(* SpecPipeline  one run of build or of updateRpcStubs of build.ts: the    *)
(*           tasks it starts, their bodies and the children they spawn.    *)
(* SpecCompose  the body of the stubCompose task: one compose command for  *)
(*           every stub, then the copy to the target.                      *)
(* SpecWorkers  the counters of component-one, component-two and           *)
(*           component-three, one worker of each, under add and get.       *)
(* SpecTermination  as SpecPipeline on the dependency map of build.ts,      *)
(*           every child ending and every body settling in the end.        *)
(* SpecMain  one call of main with the arguments of the command line.      *)
(* SpecProject  invocations of build, updateRpcStubs and clean, one after  *)
(*           the other, on the files of the project.                       *)
(***************************************************************************)
EXTENDS Naturals, Integers, Sequences, FiniteSets, TLC

VARIABLES
    fs,       \* the filesystem: path -> node
    task,     \* the task handed to runTask
    pc,       \* "idle", "awaiting" (inside await task.run()), "returned", "threw"
    events,   \* what the current call has done so far, in order
    verdict,  \* what the up-to-date check of the current call decided
    result,   \* the error the current call threw, or NoError
    cur,      \* the current call: did it start with every target absent
    prev,     \* the same, and the outcome, of the call before
    child,    \* the child process of one executor call, and the call itself
    io,       \* the buffers of runCapture, and what run has forwarded
    promise,  \* the promise the executor returned
    deps,     \* a dependency map, and what allDepsSorted returned for it
    pipeline, \* a run of build or updateRpcStubs: the calls still to make,
              \* the task bodies in progress, their children, what happened
    compose,  \* the body of stubCompose: its loop over the stubs
    workers,  \* the counters of the deployed components
    cli       \* a call of main: its arguments and the commands it has run

taskVars == <<fs, task, pc, events, verdict, result, cur, prev>>
executorVars == <<child, io, promise>>
scriptVars == <<compose, workers, cli>>
vars == <<taskVars, executorVars, deps, pipeline, scriptVars>>
\* what runTask, the executors, allDepsSorted and the pipelines leave alone
notTaskVars == <<executorVars, deps, pipeline, scriptVars>>
notExecutorVars == <<taskVars, deps, pipeline, scriptVars>>
notDepsVars == <<taskVars, executorVars, pipeline, scriptVars>>
notPipelineVars == <<taskVars, executorVars, deps, scriptVars>>
\* what the body of stubCompose, the components and main leave alone
notComposeVars == <<taskVars, executorVars, deps, pipeline, workers, cli>>
notWorkersVars == <<taskVars, executorVars, deps, pipeline, compose, cli>>
notCliVars == <<taskVars, executorVars, deps, pipeline, compose, workers>>

(***************************************************************************)
(* Bounds of the model.                                                    *)
(***************************************************************************)
\* a directory written by a task body is complete with DirFiles files
DirFiles == 2
\* a child process emits at most MaxChunks chunks on each of its streams
MaxChunks == 2
\* a component declares at most MaxDeps dependencies
MaxDeps == 2
\* the build script is invoked at most MaxCommands times on the project
MaxCommands == 3
\* main is given at most MaxArgs arguments
MaxArgs == 3
\* a worker is invoked at most MaxInvocations times, with values 1..MaxValue
MaxInvocations == 3
MaxValue == 2
\* modification instants are 1..MaxTime
MaxTime == 3
\* declared paths of the task plus directory members in the filesystem
MaxSize == 4

Instants == 1..MaxTime

(***************************************************************************)
(* The filesystem: what fs.statSync and fs.readdirSync report for a path.  *)
(***************************************************************************)
TargetPaths == <<"out/a", "out/b">>
SourcePaths == <<"src/x", "src/y">>

Range(s) == {s[i] : i \in 1..Len(s)}

Paths == Range(TargetPaths) \cup Range(SourcePaths)

\* a fs.Dirent of readdirSync(dir, {recursive: true, withFileTypes: true});
\* mtime is what statSync reports for the member.  Directory members are
\* given the newest instant, the case in which reading it would matter.
FileEntries == [isDir : {FALSE}, mtime : Instants]
SubdirEntries == [isDir : {TRUE}, mtime : {MaxTime}]
Entries == FileEntries \cup SubdirEntries

Absent == [kind |-> "absent", mtime |-> 0, entries |-> <<>>]
\* a path whose inspection fails for another reason than its absence
Fault == [kind |-> "fault", mtime |-> 0, entries |-> <<>>]
File(t) == [kind |-> "file", mtime |-> t, entries |-> <<>>]
Dir(t, es) == [kind |-> "dir", mtime |-> t, entries |-> es]

\* the nodes with exactly k directory members
NodesOfSize(k) ==
    IF k = 0
    THEN {Absent, Fault} \cup {File(t) : t \in Instants}
                         \cup {Dir(t, <<>>) : t \in Instants}
    ELSE {Dir(t, es) : t \in Instants, es \in [1..k -> Entries]}

(***************************************************************************)
(* Errors.                                                                 *)
(***************************************************************************)
NoError == [origin |-> "none", code |-> "", path |-> ""]
FsError(code, path) == [origin |-> "fs", code |-> code, path |-> path]
BodyErrors == {"E1", "E2"}
BodyError(e) == [origin |-> "body", code |-> e, path |-> ""]

\* fs.statSync(path): the node, or the error it throws
StatError(path) ==
    IF fs[path].kind = "absent" THEN FsError("ENOENT", path)
    ELSE IF fs[path].kind = "fault" THEN FsError("EACCES", path)
    ELSE NoError

\* a bug: no error is recognised as the absence of the path
IsENOENTNever(error) == FALSE

\* build-tools.ts:45
IsENOENT(error) == error.origin = "fs" /\ error.code = "ENOENT"

(***************************************************************************)
(* The up-to-date check of runTask.                                        *)
(***************************************************************************)
Run == [verdict |-> "run", error |-> NoError]
Skip == [verdict |-> "skip", error |-> NoError]
Throw(error) == [verdict |-> "throw", error |-> error]

\* a bug: run starts out false, also for an empty target list
InitialRunNever(targets) == FALSE

\* a bug: run starts out true, whatever the target list
InitialRunAlways(targets) == TRUE

\* a bug: the outcome of the call before is remembered, and a task is run
\* again after a call that went well
InitialRunRemembering(targets) == Len(targets) = 0 \/ pc = "returned"

\* build-tools.ts:37
InitialRun(targets) == Len(targets) = 0

\* build-tools.ts:59-61, one member of a target directory
LowerWatermark(targetModifiedMs, mtimeMs) ==
    IF targetModifiedMs > mtimeMs THEN mtimeMs ELSE targetModifiedMs

\* build-tools.ts:56-62
RECURSIVE ScanTargetDir(_, _)
ScanTargetDir(entries, targetModifiedMs) ==
    IF entries = <<>> THEN targetModifiedMs
    ELSE IF Head(entries).isDir
         THEN ScanTargetDir(Tail(entries), targetModifiedMs)
         ELSE ScanTargetDir(Tail(entries),
                            LowerWatermark(targetModifiedMs, Head(entries).mtime))

\* a bug: the instant of the directory itself is left out, and a directory
\* without a regular file is as old as can be
TargetModifiedMsFilesOnly(targetInfo) ==
    IF targetInfo.kind = "dir"
    THEN IF \E i \in 1..Len(targetInfo.entries) : ~targetInfo.entries[i].isDir
         THEN ScanTargetDir(targetInfo.entries, MaxTime)
         ELSE 0
    ELSE targetInfo.mtime

\* build-tools.ts:52-63
TargetModifiedMs(targetInfo) ==
    IF targetInfo.kind = "dir"
    THEN ScanTargetDir(targetInfo.entries, targetInfo.mtime)
    ELSE targetInfo.mtime

\* a bug: >= where the code has >
NewerOrEqual(mtimeMs, targetModifiedMs) == mtimeMs >= targetModifiedMs

\* build-tools.ts:69 and 80
Newer(mtimeMs, targetModifiedMs) == mtimeMs > targetModifiedMs

\* a bug: only the first member of the source directory is compared
ScanSourceDirFirst(entries, targetModifiedMs) ==
    /\ entries # <<>>
    /\ ~Head(entries).isDir
    /\ Head(entries).mtime > targetModifiedMs

\* a bug: the subdirectories beneath the source are compared as well
ScanSourceDirWithDirs(entries, targetModifiedMs) ==
    \E i \in 1..Len(entries) : entries[i].mtime > targetModifiedMs

\* build-tools.ts:77-84: some regular member is newer than the watermark
RECURSIVE ScanSourceDir(_, _)
ScanSourceDir(entries, targetModifiedMs) ==
    IF entries = <<>> THEN FALSE
    ELSE IF Head(entries).isDir
         THEN ScanSourceDir(Tail(entries), targetModifiedMs)
         ELSE IF Newer(Head(entries).mtime, targetModifiedMs)
              THEN TRUE
              ELSE ScanSourceDir(Tail(entries), targetModifiedMs)

\* a bug: every source is inspected before any is compared
CheckSourcesInspectAll(sources, targetModifiedMs) ==
    LET bad == {i \in 1..Len(sources) : StatError(sources[i]) # NoError}
    IN  IF bad # {}
        THEN Throw(StatError(sources[CHOOSE i \in bad : \A j \in bad : i <= j]))
        ELSE IF \E i \in 1..Len(sources) :
                   \E t \in (IF fs[sources[i]].kind = "file"
                              THEN {fs[sources[i]].mtime}
                              ELSE {fs[sources[i]].entries[k].mtime :
                                      k \in {n \in 1..Len(fs[sources[i]].entries) :
                                                ~fs[sources[i]].entries[n].isDir}}) :
                      t > targetModifiedMs
             THEN Run
             ELSE Skip

\* a bug: a source that cannot be inspected is passed over
RECURSIVE CheckSourcesLenient(_, _)
CheckSourcesLenient(sources, targetModifiedMs) ==
    IF sources = <<>> THEN Skip
    ELSE LET sourceInfo == fs[Head(sources)]
         IN  IF /\ StatError(Head(sources)) = NoError
                /\ \/ sourceInfo.kind # "dir" /\ sourceInfo.mtime > targetModifiedMs
                   \/ sourceInfo.kind = "dir"
                        /\ \E i \in 1..Len(sourceInfo.entries) :
                               /\ ~sourceInfo.entries[i].isDir
                               /\ sourceInfo.entries[i].mtime > targetModifiedMs
             THEN Run
             ELSE CheckSourcesLenient(Tail(sources), targetModifiedMs)

\* build-tools.ts:65-85: the sources against one target's watermark;
\* Skip stands for "go on with the next target"
RECURSIVE CheckSources(_, _)
CheckSources(sources, targetModifiedMs) ==
    IF sources = <<>> THEN Skip
    ELSE LET source == Head(sources)
             sourceInfo == fs[source]
         IN  IF StatError(source) # NoError THEN Throw(StatError(source))
             ELSE IF sourceInfo.kind # "dir"
                  THEN IF Newer(sourceInfo.mtime, targetModifiedMs)
                       THEN Run
                       ELSE CheckSources(Tail(sources), targetModifiedMs)
                  ELSE IF ScanSourceDir(sourceInfo.entries, targetModifiedMs)
                       THEN Run
                       ELSE CheckSources(Tail(sources), targetModifiedMs)

\* a bug: the error of statSync is thrown on, the absence of the target too
TargetStatRethrow(target) ==
    IF StatError(target) = NoError THEN Skip ELSE Throw(StatError(target))

\* a bug: every error of statSync marks the task stale
TargetStatAnyError(target) ==
    IF StatError(target) = NoError THEN Skip ELSE Run

\* build-tools.ts:41-50: what the inspection of a target decides by itself
TargetStat(target) ==
    IF StatError(target) = NoError THEN Skip
    ELSE IF IsENOENT(StatError(target)) THEN Run
    ELSE Throw(StatError(target))

\* a bug: only the first target is compared with the sources
CheckTargetsFirstOnly(targets, sources, run) ==
    IF targets = <<>> THEN (IF run THEN Run ELSE Skip)
    ELSE LET stat == TargetStat(Head(targets))
         IN  IF stat # Skip THEN stat
             ELSE CheckSources(sources, TargetModifiedMs(fs[Head(targets)]))

\* build-tools.ts:40-86
RECURSIVE CheckTargets(_, _, _)
CheckTargets(targets, sources, run) ==
    IF targets = <<>> THEN (IF run THEN Run ELSE Skip)
    ELSE LET target == Head(targets)
             stat == TargetStat(target)
         IN  IF stat # Skip THEN stat
             ELSE LET c == CheckSources(sources, TargetModifiedMs(fs[target]))
                  IN  IF c # Skip THEN c
                      ELSE CheckTargets(Tail(targets), sources, run)

\* build-tools.ts:37-86
UpToDateCheck(t) == CheckTargets(t.targets, t.sources, InitialRun(t.targets))

(***************************************************************************)
(* Console output.                                                         *)
(***************************************************************************)
\* Array.prototype.join
RECURSIVE Join(_, _)
Join(strs, sep) ==
    IF strs = <<>> THEN ""
    ELSE IF Len(strs) = 1 THEN Head(strs)
    ELSE Head(strs) \o sep \o Join(Tail(strs), sep)

\* a bug: the targets are joined by ", "
SkipLineSpaced(t) ==
    Join(t.targets, ", ") \o " is up to date, skipping " \o t.skipMessage

\* build-tools.ts:89
SkipLine(t) == Join(t.targets, ",") \o " is up to date, skipping " \o t.skipMessage

\* build-tools.ts:93
RunLine(t) == t.runMessage

Log(text) == [ev |-> "log", text |-> text]
Invoke == [ev |-> "invoke", text |-> ""]
\* the promise of task.run() settles: "ok", or the error it rejects with
Settle(outcome) == [ev |-> "settle", text |-> outcome]

\* build-tools.ts:88-91
SkipBranch(t) == <<Log(SkipLine(t))>>

\* build-tools.ts:93-94, up to the await
RunBranch(t) == <<Log(RunLine(t)), Invoke>>

\* what console.log has printed during the call
LogLines == SelectSeq(events, LAMBDA e : e.ev = "log")
\* how often task.run() has been called during the call
BodyCalls == Len(SelectSeq(events, LAMBDA e : e.ev = "invoke"))

(***************************************************************************)
(* The executors run and runCapture: values.                               *)
(***************************************************************************)
Commands == {"golem-cli"}
ArgLists == {<<>>, <<"stubgen">>, <<"stubgen", "build">>}
Chunks == {"a", "b"}
Executors == {"run", "runCapture"}

\* build-tools.ts:117: code: number | null
Null == [null |-> TRUE, n |-> 0]
Code(n) == [null |-> FALSE, n |-> n]
\* what a child that ran closes with: a status, or null after a signal
ExitCodes == {Code(0), Code(1), Code(2), Null}
\* what a child that could not be started closes with: the negated errno
SpawnFailed == Code(-2)
\* build-tools.ts:108: ${code}
CodeText(code) == IF code.null THEN "null" ELSE ToString(code.n)

\* build-tools.ts:108, 138: ${command} ${args.join(" ")}
CommandLine(command, args) == command \o " " \o Join(args, " ")

\* build-tools.ts:108: the message of the error run rejects with
ExitMessage(command, args, code) ==
    "Command [" \o CommandLine(command, args) \o "] failed with exit code "
        \o CodeText(code)

ExitError(message) == [kind |-> "exit", message |-> message]
\* the error of the 'error' event of a child that could not be started
SpawnError(command) ==
    [kind |-> "spawn", message |-> "spawn " \o command \o " ENOENT"]
NoFailure == [kind |-> "none", message |-> ""]

\* a variable of type string that may hold undefined
Undefined == [defined |-> FALSE, text |-> ""]
Str(text) == [defined |-> TRUE, text |-> text]
\* build-tools.ts:127-128: let stderr: string; let stdout: string;
Uninitialised == Undefined
\* build-tools.ts:130-131: stdout += data
PlusAssign(buffer, data) ==
    Str((IF buffer.defined THEN buffer.text ELSE "undefined") \o data)

\* build-tools.ts:116-121: RunResult; run resolves with no value
RunResult(code, stdout, stderr, cmd) ==
    [code |-> code, stdout |-> stdout, stderr |-> stderr, cmd |-> cmd]
Void == RunResult(Null, Undefined, Undefined, "")

\* a bug: a promise that is settled is settled again
SettleWithLatest(p, outcome) == outcome

Pending == [state |-> "pending", value |-> Void, error |-> NoFailure]
Resolved(value) == [state |-> "resolved", value |-> value, error |-> NoFailure]
Rejected(error) == [state |-> "rejected", value |-> Void, error |-> error]
\* build-tools.ts:98, 124: resolve and reject settle a promise once
SettleWith(p, outcome) == IF p.state = "pending" THEN outcome ELSE p

\* a bug: a child killed by a signal counts as a success
SucceededLoosely(code) == code \in {Code(0), Null}

\* build-tools.ts:105: code === 0
Succeeded(code) == code = Code(0)

\* a bug: runCapture rejects when the child fails, as run does
OnCloseCaptureStrict(c, buffers, code) ==
    IF code = Code(0)
    THEN Resolved(RunResult(code, buffers.stdout, buffers.stderr,
                            CommandLine(c.command, c.args)))
    ELSE Rejected(ExitError(ExitMessage(c.command, c.args, code)))

\* build-tools.ts:133-140: the 'close' handler of runCapture
OnCloseCapture(c, buffers, code) ==
    Resolved(RunResult(code, buffers.stdout, buffers.stderr,
                       CommandLine(c.command, c.args)))

\* build-tools.ts:104-110: the 'close' handler of run
OnCloseRun(c, code) ==
    IF Succeeded(code) THEN Resolved(Void)
    ELSE Rejected(ExitError(ExitMessage(c.command, c.args, code)))

\* a bug: the 'error' event is turned into a result
OnErrorAsResult(c, error) ==
    IF c.fn = "run" THEN Rejected(error)
    ELSE Resolved(RunResult(Null, Undefined, Undefined,
                            CommandLine(c.command, c.args)))

\* build-tools.ts:112, 142: the 'error' handler of both executors
OnError(c, error) == Rejected(error)

\* no executor call is under way
NoChild == [fn |-> "none", command |-> "", args |-> <<>>, state |-> "none",
            code |-> Null, out |-> <<>>, err |-> <<>>]
NoIo == [stdout |-> Undefined, stderr |-> Undefined,
         fwdOut |-> <<>>, fwdErr |-> <<>>]
NoExecutor ==
    /\ child = NoChild
    /\ io = NoIo
    /\ promise = [state |-> "none", value |-> Void, error |-> NoFailure]

(***************************************************************************)
(* allDepsSorted.  A name is the sequence of its UTF-16 code units, which  *)
(* is what Array.prototype.sort compares.                                  *)
(***************************************************************************)
NameA == <<65>>
NameB == <<66>>
NameBA == <<66, 65>>
NameC == <<67>>
NameD == <<68>>
Names == {NameA, NameB, NameBA, NameC, NameD}
\* the keys of a map, in the order of their insertion
Keys == <<NameA, NameD>>

\* build-tools.ts:146: { [key: string]: string[] }, as the list of its
\* entries in the order of Object.values
DepLists == UNION {[1..n -> Names] : n \in 0..MaxDeps}
Entry(key, list) == [key |-> key, deps |-> list]
Dependencies ==
    {<<>>}
      \cup {<<Entry(Keys[1], l)>> : l \in DepLists}
      \cup {<<Entry(Keys[1], l), Entry(Keys[2], m)>> : l, m \in DepLists}

\* the default comparison of sort(): code unit by code unit, a proper
\* prefix first
RECURSIVE LexLess(_, _)
LexLess(a, b) ==
    CASE b = <<>> -> FALSE
      [] a = <<>> -> TRUE
      [] Head(a) # Head(b) -> Head(a) < Head(b)
      [] OTHER -> LexLess(Tail(a), Tail(b))

\* build-tools.ts:152: Set.add keeps the first insertion of a value
SetAdd(set, dep) ==
    IF \E i \in 1..Len(set) : set[i] = dep THEN set ELSE Append(set, dep)

\* build-tools.ts:151-153: the inner loop
RECURSIVE AddEach(_, _)
AddEach(set, list) ==
    IF list = <<>> THEN set
    ELSE AddEach(SetAdd(set, Head(list)), Tail(list))

\* build-tools.ts:150-154: the outer loop
RECURSIVE AllDepsSet(_, _)
AllDepsSet(set, entries) ==
    IF entries = <<>> THEN set
    ELSE AllDepsSet(AddEach(set, Head(entries).deps), Tail(entries))

\* one element put at its place in a sorted list
RECURSIVE Insert(_, _)
Insert(name, sorted) ==
    IF sorted = <<>> THEN <<name>>
    ELSE IF LexLess(name, Head(sorted)) THEN <<name>> \o sorted
    ELSE <<Head(sorted)>> \o Insert(name, Tail(sorted))

\* a bug: the list is returned in the order of insertion
SortSkipped(list) == list

\* build-tools.ts:155: Array.from(allDepsSet).sort()
RECURSIVE Sort(_)
Sort(list) ==
    IF list = <<>> THEN <<>> ELSE Insert(Head(list), Sort(Tail(list)))

\* a bug: only the dependencies of the first entry are collected
AllDepsSortedFirstEntry(dependencies) ==
    IF dependencies = <<>> THEN <<>>
    ELSE Sort(AddEach(<<>>, Head(dependencies).deps))

\* build-tools.ts:148-156
AllDepsSorted(dependencies) == Sort(AllDepsSet(<<>>, dependencies))

\* no call of allDepsSorted is under way
NoDeps == deps = [map |-> <<>>, called |-> FALSE, returned |-> <<>>]

(***************************************************************************)
(* The pipelines of build.ts: build and updateRpcStubs.                    *)
(***************************************************************************)
\* build.ts:296-299: componentDependencies; a component lists a dependency
\* once
ComponentDependencies ==
    {m \in Dependencies :
        \A i \in 1..Len(m) :
            \A j, k \in 1..Len(m[i].deps) : m[i].deps[j] = m[i].deps[k] => j = k}

\* build.ts:426: componentDependencies[compName], undefined giving no stub
DepsOfComponent(m, comp) ==
    IF \E i \in 1..Len(m) : m[i].key = comp
    THEN m[CHOOSE i \in 1..Len(m) : m[i].key = comp].deps
    ELSE <<>>

RECURSIVE KeysOf(_)
KeysOf(m) == IF m = <<>> THEN <<>> ELSE <<Head(m).key>> \o KeysOf(Tail(m))

\* build.ts:301-304: the directories of src/components, one for every
\* component the map names
CompNames(m) == Sort(AddEach(AllDepsSet(<<>>, m), KeysOf(m)))

\* a call of one of the task functions of build.ts; spawns is the number of
\* executor calls its body makes, one after the other
NoName == <<>>
Step(kind, comp, dep, spawns) ==
    [kind |-> kind, comp |-> comp, dep |-> dep, spawns |-> spawns]

\* a bug: the component is componentized before it is bundled
BuildComponentUnordered(m, comp) ==
    << Step("generateBinding", comp, NoName, 1),
       Step("componentize", comp, NoName, 1),
       Step("rollupComponent", comp, NoName, 0),
       Step("stubCompose", comp, NoName, Len(DepsOfComponent(m, comp))) >>

\* build.ts:312-319: buildComponent
BuildComponent(m, comp) ==
    << Step("generateBinding", comp, NoName, 1),
       Step("rollupComponent", comp, NoName, 0),
       Step("componentize", comp, NoName, 1),
       Step("stubCompose", comp, NoName, Len(DepsOfComponent(m, comp))) >>

RECURSIVE BuildEach(_, _)
BuildEach(m, comps) ==
    IF comps = <<>> THEN <<>>
    ELSE BuildComponent(m, Head(comps)) \o BuildEach(m, Tail(comps))

\* build.ts:306-310: build
BuildCalls(m) == BuildEach(m, CompNames(m))

\* build.ts:485-487: for (const stub of stubs)
RECURSIVE BuildStubs(_)
BuildStubs(stubs) ==
    IF stubs = <<>> THEN <<>>
    ELSE <<Step("buildStubComponent", Head(stubs), NoName, 1)>>
            \o BuildStubs(Tail(stubs))

\* build.ts:490-492: for (const dep of deps)
RECURSIVE AddStubsOf(_, _)
AddStubsOf(comp, list) ==
    IF list = <<>> THEN <<>>
    ELSE <<Step("addStubDependency", comp, Head(list), 1)>>
            \o AddStubsOf(comp, Tail(list))

\* build.ts:489-493: for (const [comp, deps] of Object.entries(...))
RECURSIVE AddStubs(_)
AddStubs(m) ==
    IF m = <<>> THEN <<>>
    ELSE AddStubsOf(Head(m).key, Head(m).deps) \o AddStubs(Tail(m))

\* a bug: the stubs are added to the dependants before they are built
UpdateRpcStubsCallsAddFirst(m) == AddStubs(m) \o BuildStubs(AllDepsSorted(m))

\* build.ts:483-494: updateRpcStubs
UpdateRpcStubsCalls(m) == BuildStubs(AllDepsSorted(m)) \o AddStubs(m)

PipelineCommands == {"build", "updateRpcStubs"}

\* the calls the command makes, each awaited before the next
Calls(command, m) ==
    IF command = "build" THEN BuildCalls(m) ELSE UpdateRpcStubsCalls(m)

\* no pipeline is under way
NoPipeline ==
    pipeline = [command |-> "none", map |-> <<>>, calls |-> <<>>,
                running |-> {}, trace |-> <<>>, aborted |-> FALSE]

(***************************************************************************)
(* The body of stubCompose (build.ts:438-479).  A text is the list of the  *)
(* fragments it is made of, and includes() looks for a fragment.           *)
(***************************************************************************)
\* build.ts:426-431: the stubs of the component, none, one or two
StubNames == <<"component-two", "component-three">>
StubLists == {SubSeq(StubNames, 1, n) : n \in 0..Len(StubNames)}

\* build.ts:458
NoDependencies == "Error: no dependencies of component"
WereFound == "were found"
\* what the compose command may have written on its standard error: the
\* buffer of runCapture starts out undefined (build-tools.ts:127, 131)
StderrTexts ==
    {<<"undefined", NoDependencies, " x ", WereFound>>,
     <<"undefined", NoDependencies, " x ">>,
     <<"undefined", WereFound>>,
     <<"undefined", "error: failed to compose">>}
Stderrs == {[defined |-> FALSE, parts |-> <<>>]}
              \cup {[defined |-> TRUE, parts |-> t] : t \in StderrTexts}
ComposeResults == [code : ExitCodes, stderr : Stderrs]

Includes(parts, fragment) == \E i \in 1..Len(parts) : parts[i] = fragment

\* a bug: one of the two fragments is enough
NotUsedEither(stderr) ==
    Includes(stderr.parts, NoDependencies) \/ Includes(stderr.parts, WereFound)

\* build.ts:458: the stub is not used by the component
NotUsed(stderr) ==
    Includes(stderr.parts, NoDependencies) /\ Includes(stderr.parts, WereFound)

\* build.ts:421, 446
ComponentWasm == "component.wasm"
ComposeWasm(i, stub) == "compose-" \o ToString(i) \o "-" \o stub \o ".wasm"

(***************************************************************************)
(* The components.  A counter is a bigint and does not overflow; a remote  *)
(* blockingAdd returns when the add of the worker it addresses has         *)
(* returned, and the workers addressed are those of the caller's own name. *)
(***************************************************************************)
Components == {"component-one", "component-two", "component-three"}
\* part_001:5, component-two/main.ts:6: let state = BigInt(0)
FreshCounters == [c \in Components |-> 0]

\* component-three, whose source is not part of the repository copy: a
\* plain counter, as the component template (hello/main.ts:6-9)
AddThree(state, value) == [state EXCEPT !["component-three"] = @ + value]

\* component-two/main.ts:9-20
AddTwo(state, value) ==
    [AddThree(state, value) EXCEPT !["component-two"] = @ + value]

\* part_001:8-20
AddOne(state, value) ==
    [AddThree(AddTwo(state, value), value) EXCEPT !["component-one"] = @ + value]

Add(comp, state, value) ==
    CASE comp = "component-one" -> AddOne(state, value)
      [] comp = "component-two" -> AddTwo(state, value)
      [] OTHER -> AddThree(state, value)

\* part_001:21-23, component-two/main.ts:21-23
Get(comp, state) == state[comp]

\* where a blockingAdd may fail: nowhere, in the call of component-one to
\* component-two, in the call of component-two to component-three, or in
\* the call of component-one to component-three; applied tells whether the
\* worker called had done its add when the call failed
Failures ==
    [at : {"none", "one-two", "two-three", "one-three"}, applied : BOOLEAN]
Thrown(state) == [state |-> state, ok |-> FALSE]
Returned(state) == [state |-> state, ok |-> TRUE]

\* a bug: the component adds to its own counter before it delegates
TryAddTwoEager(state, value, f) ==
    LET own == [state EXCEPT !["component-two"] = @ + value]
    IN  IF f.at = "two-three"
        THEN Thrown(IF f.applied THEN AddThree(own, value) ELSE own)
        ELSE Returned(AddThree(own, value))

\* component-two/main.ts:9-20: an exception of blockingAdd ends add before
\* state += value
TryAddTwo(state, value, f) ==
    IF f.at = "two-three"
    THEN Thrown(IF f.applied THEN AddThree(state, value) ELSE state)
    ELSE Returned(AddTwo(state, value))

\* part_001:8-20
TryAddOne(state, value, f) ==
    IF f.at = "one-two"
    THEN Thrown(IF f.applied THEN AddTwo(state, value) ELSE state)
    ELSE LET two == TryAddTwo(state, value, f)
         IN  IF ~two.ok THEN Thrown(two.state)
             ELSE IF f.at = "one-three"
                  THEN Thrown(IF f.applied THEN AddThree(two.state, value)
                              ELSE two.state)
                  ELSE Returned([AddThree(two.state, value)
                                    EXCEPT !["component-one"] = @ + value])

TryAdd(comp, state, value, f) ==
    CASE comp = "component-one" -> TryAddOne(state, value, f)
      [] comp = "component-two" -> TryAddTwo(state, value, f)
      [] OTHER -> Returned(AddThree(state, value))

(***************************************************************************)
(* main (build-tools.ts:7-26).                                             *)
(***************************************************************************)
\* build.ts:269-286: the keys of commands, in their order
CommandNames == <<"build", "clean">>
\* what may stand on the command line: the known names and an unknown one
ArgNames == Range(CommandNames) \cup {"biuld"}
ArgLines == UNION {[1..n -> ArgNames] : n \in 0..MaxArgs}

\* build-tools.ts:20-21: commands[cmd] is undefined
IsUndefined(cmd) == cmd \notin Range(CommandNames)
\* build-tools.ts:22
NotFound(cmd) == "Command not found: " \o cmd
\* the rejection of a command that fails
CommandFailed(cmd) == "failed: " \o cmd

\* no body of stubCompose is under way, no component is deployed, main is
\* not called
NoCompose == compose = <<>>
NoWorkers == workers = <<>>
NoCli == cli = <<>>
NoScripts == NoCompose /\ NoWorkers /\ NoCli

(***************************************************************************)
(* Tasks and initial states.                                               *)
(***************************************************************************)
RunMessages == {"Building stub component"}
SkipMessages == {"stub component build"}

Tasks ==
    [targets : {SubSeq(TargetPaths, 1, n) : n \in 0..Len(TargetPaths)},
     sources : {SubSeq(SourcePaths, 1, n) : n \in 0..Len(SourcePaths)},
     runMessage : RunMessages,
     skipMessage : SkipMessages]

Declared(t) == Range(t.targets) \cup Range(t.sources)

\* the node of a path that is given k directory members; a path the task
\* does not declare does not exist
NodesFor(t, p, k) == IF p \in Declared(t) THEN NodesOfSize(k) ELSE {Absent}

Sizes(t) ==
    {k \in [Paths -> 0..MaxSize] :
        /\ \A p \in Paths \ Declared(t) : k[p] = 0
        /\ Cardinality(Declared(t)) + k["out/a"] + k["out/b"]
                                    + k["src/x"] + k["src/y"] <= MaxSize}

\* there is no call before the first one
NoCall == [outcome |-> "none", clean |-> FALSE]

Init ==
    /\ task \in Tasks
    /\ \E k \in Sizes(task) :
        \E a \in NodesFor(task, "out/a", k["out/a"]),
           b \in NodesFor(task, "out/b", k["out/b"]),
           x \in NodesFor(task, "src/x", k["src/x"]),
           y \in NodesFor(task, "src/y", k["src/y"]) :
            fs = [p \in Paths |->
                    CASE p = "out/a" -> a
                      [] p = "out/b" -> b
                      [] p = "src/x" -> x
                      [] OTHER -> y]
    /\ pc = "idle"
    /\ events = <<>>
    /\ verdict = "none"
    /\ result = NoError
    /\ cur = [clean |-> FALSE]
    /\ prev = NoCall
    /\ NoExecutor
    /\ NoDeps
    /\ NoPipeline
    /\ NoScripts

\* a build from a clean state: no declared target exists yet
InitBuild ==
    /\ Init
    /\ \A p \in Range(task.targets) : fs[p] = Absent

(***************************************************************************)
(* runTask(task), from its call to the await of the body (or to its end,   *)
(* when the body is not invoked).                                          *)
(***************************************************************************)
\* a bug: task.run() is not awaited
AfterInvokeNoAwait == "returned"

\* build-tools.ts:94: runTask waits for the promise of task.run()
AfterInvoke == "awaiting"

\* a bug: the rejection of the body is swallowed
AwaitResultSwallowed(outcome) == NoError

\* build-tools.ts:94-95: what runTask throws once the body has settled
AwaitResult(outcome) == IF outcome = "ok" THEN NoError ELSE BodyError(outcome)

\* how the current call ended
Outcome ==
    CASE pc = "idle" -> "none"
      [] pc = "awaiting" -> "pending"
      [] pc = "threw" /\ verdict = "throw" -> "check failed"
      [] pc = "threw" -> "failed"
      [] verdict = "skip" -> "skipped"
      [] OTHER -> "ok"

Call ==
    /\ pc \in {"idle", "returned", "threw"}
    /\ LET check == UpToDateCheck(task)
       IN  /\ verdict' = check.verdict
           /\ events' = (CASE check.verdict = "throw" -> <<>>
                           [] check.verdict = "skip" -> SkipBranch(task)
                           [] OTHER -> RunBranch(task))
           /\ pc' = (CASE check.verdict = "throw" -> "threw"
                       [] check.verdict = "skip" -> "returned"
                       [] OTHER -> AfterInvoke)
           /\ result' = check.error
    /\ prev' = [outcome |-> Outcome, clean |-> cur.clean]
    /\ cur' = [clean |-> \A p \in Range(task.targets) : fs[p] = Absent]
    /\ UNCHANGED <<fs, task>>
    /\ UNCHANGED notTaskVars

\* the task body, running, writes one of the task's targets at instant t:
\* the first target path as a plain file, the second as a directory holding
\* one file (build.ts:503-506, targets: [destWasm, destWitDir])
Produce(p, t) ==
    IF p = TargetPaths[1] THEN File(t)
    ELSE Dir(t, <<[isDir |-> FALSE, mtime |-> t]>>)

BodyWrite(p, t) ==
    /\ pc = "awaiting"
    /\ p \in Range(task.targets)
    /\ fs' = [fs EXCEPT ![p] = Produce(p, t)]
    /\ UNCHANGED <<task, pc, events, verdict, result, cur, prev>>
    /\ UNCHANGED notTaskVars

\* build-tools.ts:94-95: the promise of task.run() settles and runTask ends
BodySettle(outcome) ==
    /\ pc = "awaiting"
    /\ events' = Append(events, Settle(outcome))
    /\ pc' = IF AwaitResult(outcome) = NoError THEN "returned" ELSE "threw"
    /\ result' = AwaitResult(outcome)
    /\ UNCHANGED <<fs, task, verdict, cur, prev>>
    /\ UNCHANGED notTaskVars

BodyOutcomes == {"ok"} \cup BodyErrors

\* task bodies that leave the declared paths as they are
Next ==
    \/ Call
    \/ \E outcome \in BodyOutcomes : BodySettle(outcome)

Spec == Init /\ [][Next]_vars

\* task bodies that produce their targets, from a clean state
NextBuild ==
    \/ Call
    \/ \E p \in Paths, t \in Instants : BodyWrite(p, t)
    \/ \E outcome \in BodyOutcomes : BodySettle(outcome)

SpecBuild == InitBuild /\ [][NextBuild]_vars

\* a task body that fills its directory target one file at a time: the
\* directory is complete once it holds DirFiles files (build.ts:507-518,
\* the stub generator writes the wasm file and the files of the wit
\* directory)
BodyWriteMember(p, t) ==
    /\ pc = "awaiting"
    /\ p \in Range(task.targets)
    /\ fs[p].kind = "dir"
    /\ Len(fs[p].entries) < DirFiles
    /\ fs' = [fs EXCEPT ![p] =
                Dir(t, Append(fs[p].entries, [isDir |-> FALSE, mtime |-> t]))]
    /\ UNCHANGED <<task, pc, events, verdict, result, cur, prev>>
    /\ UNCHANGED notTaskVars

NextRetry ==
    \/ NextBuild
    \/ \E p \in Paths, t \in Instants : BodyWriteMember(p, t)

\* task bodies that may fail half-way through their output
SpecRetry == InitBuild /\ [][NextRetry]_vars

(***************************************************************************)
(* One call of run(command, args) or runCapture(command, args), from the   *)
(* return of child_process.spawn on: the child either runs or could not be *)
(* started.                                                                *)
(***************************************************************************)
\* no task is under way
NoTask ==
    /\ fs = [p \in Paths |-> Absent]
    /\ task = [targets |-> <<>>, sources |-> <<>>,
               runMessage |-> "", skipMessage |-> ""]
    /\ pc = "idle"
    /\ events = <<>>
    /\ verdict = "none"
    /\ result = NoError
    /\ cur = [clean |-> FALSE]
    /\ prev = NoCall

\* build-tools.ts:98-99, 124-128
InitExec ==
    /\ NoTask
    /\ NoDeps
    /\ NoPipeline
    /\ NoScripts
    /\ child \in [fn : Executors, command : Commands, args : ArgLists,
                  state : {"running", "failing"}, code : {Null},
                  out : {<<>>}, err : {<<>>}]
    /\ io = [stdout |-> Uninitialised, stderr |-> Uninitialised,
             fwdOut |-> <<>>, fwdErr |-> <<>>]
    /\ promise = Pending

\* build-tools.ts:101, 130: 'data' on the child's standard output
StdoutData(chunk) ==
    /\ child.state = "running"
    /\ Len(child.out) < MaxChunks
    /\ child' = [child EXCEPT !.out = Append(@, chunk)]
    /\ io' = IF child.fn = "run"
             THEN [io EXCEPT !.fwdOut = Append(@, chunk)]
             ELSE [io EXCEPT !.stdout = PlusAssign(@, chunk)]
    /\ UNCHANGED <<promise, notExecutorVars>>

\* build-tools.ts:102, 131: 'data' on the child's standard error
StderrData(chunk) ==
    /\ child.state = "running"
    /\ Len(child.err) < MaxChunks
    /\ child' = [child EXCEPT !.err = Append(@, chunk)]
    /\ io' = IF child.fn = "run"
             THEN [io EXCEPT !.fwdErr = Append(@, chunk)]
             ELSE [io EXCEPT !.stderr = PlusAssign(@, chunk)]
    /\ UNCHANGED <<promise, notExecutorVars>>

\* build-tools.ts:112, 142: 'error', emitted for a child that could not be
\* started
ChildError ==
    /\ child.state = "failing"
    /\ child' = [child EXCEPT !.state = "failed"]
    /\ promise' = SettleWith(promise, OnError(child, SpawnError(child.command)))
    /\ UNCHANGED <<io, notExecutorVars>>

\* build-tools.ts:104-110, 133-140: 'close', emitted once the child has
\* ended and its streams are closed; also after 'error'
ChildClose(code) ==
    /\ \/ child.state = "running" /\ code \in ExitCodes
       \/ child.state = "failed" /\ code = SpawnFailed
    /\ child' = [child EXCEPT !.state = "closed", !.code = code]
    /\ promise' = SettleWith(promise,
                     IF child.fn = "run" THEN OnCloseRun(child, code)
                     ELSE OnCloseCapture(child, io, code))
    /\ UNCHANGED <<io, notExecutorVars>>

NextExec ==
    \/ \E chunk \in Chunks : StdoutData(chunk)
    \/ \E chunk \in Chunks : StderrData(chunk)
    \/ ChildError
    \/ \E code \in ExitCodes \cup {SpawnFailed} : ChildClose(code)

SpecExec == InitExec /\ [][NextExec]_vars

(***************************************************************************)
(* One call of allDepsSorted(dependencies).                                *)
(***************************************************************************)
InitDeps ==
    /\ NoTask
    /\ NoExecutor
    /\ NoPipeline
    /\ NoScripts
    /\ deps \in [map : Dependencies, called : {FALSE}, returned : {<<>>}]

\* build-tools.ts:148-156
CallAllDepsSorted ==
    /\ ~deps.called
    /\ deps' = [deps EXCEPT !.called = TRUE,
                            !.returned = AllDepsSorted(deps.map)]
    /\ UNCHANGED notDepsVars

NextDeps == CallAllDepsSorted

SpecDeps == InitDeps /\ [][NextDeps]_vars

(***************************************************************************)
(* One run of build or updateRpcStubs.  What the staleness check of a     *)
(* task decides and how a child ends depend on the filesystem and on the  *)
(* tools, and are left open here.                                          *)
(***************************************************************************)
InitPipeline ==
    /\ NoTask
    /\ NoExecutor
    /\ NoDeps
    /\ NoScripts
    /\ \E command \in PipelineCommands, m \in ComponentDependencies :
          pipeline = [command |-> command, map |-> m,
                      calls |-> Calls(command, m),
                      running |-> {}, trace |-> <<>>, aborted |-> FALSE]

Happened(step, what) == [kind |-> step.kind, comp |-> step.comp,
                         dep |-> step.dep, what |-> what]

\* a bug: the pipeline goes on to its next call without waiting
NotAwaited == TRUE

\* build.ts:308, 315-318, 486, 491: await; the call before has returned
Awaited == pipeline.running = {}

\* the pipeline makes its next call: runTask checks the task and, when it
\* is stale, starts the body (build-tools.ts:36-94)
StartTask(decision) ==
    /\ pipeline.calls # <<>>
    /\ ~pipeline.aborted
    /\ Awaited
    /\ LET step == Head(pipeline.calls)
           started == Append(pipeline.trace, Happened(step, "start"))
       IN  pipeline' =
             CASE decision = "throw" ->
                    [pipeline EXCEPT !.trace = started, !.aborted = TRUE]
               [] decision = "skip" ->
                    [pipeline EXCEPT
                        !.calls = Tail(@),
                        !.trace = Append(started, Happened(step, "done"))]
               [] OTHER ->
                    [pipeline EXCEPT
                        !.calls = Tail(@),
                        !.trace = started,
                        !.running = @ \cup {[step |-> step, left |-> step.spawns,
                                             child |-> FALSE]}]
    /\ UNCHANGED notPipelineVars

\* a body calls run or runCapture and awaits it (build.ts:329, 414, 447,
\* 508, 536)
SpawnChild(r) ==
    /\ r \in pipeline.running
    /\ ~r.child
    /\ r.left > 0
    /\ pipeline' = [pipeline EXCEPT
                       !.running = (@ \ {r})
                           \cup {[r EXCEPT !.child = TRUE, !.left = @ - 1]}]
    /\ UNCHANGED notPipelineVars

\* the child of a body ends: the body goes on, or fails with the pipeline
\* (a compose that finds nothing to compose counts as going on,
\* build.ts:458-463)
ChildEnds(r, ok) ==
    /\ r \in pipeline.running
    /\ r.child
    /\ pipeline' =
         IF ok
         THEN [pipeline EXCEPT
                  !.running = (@ \ {r}) \cup {[r EXCEPT !.child = FALSE]}]
         ELSE [pipeline EXCEPT !.running = @ \ {r}, !.aborted = TRUE]
    /\ UNCHANGED notPipelineVars

\* a body has made all its executor calls and returns, or fails
BodyReturns(r, ok) ==
    /\ r \in pipeline.running
    /\ ~r.child
    /\ r.left = 0
    /\ pipeline' =
         IF ok
         THEN [pipeline EXCEPT
                  !.running = @ \ {r},
                  !.trace = Append(@, Happened(r.step, "done"))]
         ELSE [pipeline EXCEPT !.running = @ \ {r}, !.aborted = TRUE]
    /\ UNCHANGED notPipelineVars

Decisions == {"skip", "run", "throw"}

NextPipeline ==
    \/ \E decision \in Decisions : StartTask(decision)
    \/ \E r \in pipeline.running : SpawnChild(r)
    \/ \E r \in pipeline.running, ok \in BOOLEAN : ChildEnds(r, ok)
    \/ \E r \in pipeline.running, ok \in BOOLEAN : BodyReturns(r, ok)

SpecPipeline == InitPipeline /\ [][NextPipeline]_vars

(***************************************************************************)
(* The body of the stubCompose task, from its invocation by runTask.       *)
(***************************************************************************)
\* build.ts:439-442
InitCompose ==
    /\ NoTask
    /\ NoExecutor
    /\ NoDeps
    /\ NoPipeline
    /\ NoWorkers
    /\ NoCli
    /\ \E stubWasms \in StubLists :
          compose = [stubWasms |-> stubWasms,
                     i |-> 0,
                     srcWasm |-> ComponentWasm,
                     composeWasm |-> ComponentWasm,
                     prevComposeWasm |-> ComponentWasm,
                     awaiting |-> FALSE,
                     results |-> <<>>,
                     log |-> <<>>,
                     status |-> "running",
                     targetWasm |-> ""]

\* build.ts:443-456: the next turn of the loop, up to the await
ComposeNext ==
    /\ compose.status = "running"
    /\ ~compose.awaiting
    /\ compose.i < Len(compose.stubWasms)
    /\ compose' = [compose EXCEPT
                      !.i = @ + 1,
                      !.prevComposeWasm = compose.composeWasm,
                      !.composeWasm =
                          ComposeWasm(compose.i + 1,
                                      compose.stubWasms[compose.i + 1]),
                      !.awaiting = TRUE]
    /\ UNCHANGED notComposeVars

\* a bug: a stub that is not used leaves composeWasm at the file that was
\* not written
ComposeResultNotRestored(r) ==
    /\ compose.status = "running"
    /\ compose.awaiting
    /\ compose' =
         CASE r.code = Code(0) ->
                [compose EXCEPT !.awaiting = FALSE,
                                !.results = Append(@, r),
                                !.srcWasm = compose.composeWasm]
           [] r.code # Code(0) /\ r.stderr.defined /\ NotUsed(r.stderr) ->
                [compose EXCEPT !.awaiting = FALSE,
                                !.results = Append(@, r),
                                !.log = Append(@, compose.stubWasms[compose.i])]
           [] OTHER ->
                [compose EXCEPT !.awaiting = FALSE,
                                !.results = Append(@, r),
                                !.status = "failed"]
    /\ UNCHANGED notComposeVars

\* build.ts:457-473: the command has closed; result.stderr.includes throws
\* when the buffer is still undefined
ComposeResult(r) ==
    /\ compose.status = "running"
    /\ compose.awaiting
    /\ compose' =
         CASE r.code = Code(0) ->
                [compose EXCEPT !.awaiting = FALSE,
                                !.results = Append(@, r),
                                !.srcWasm = compose.composeWasm]
           [] r.code # Code(0) /\ ~r.stderr.defined ->
                [compose EXCEPT !.awaiting = FALSE,
                                !.results = Append(@, r),
                                !.status = "failed"]
           [] r.code # Code(0) /\ r.stderr.defined /\ NotUsed(r.stderr) ->
                [compose EXCEPT !.awaiting = FALSE,
                                !.results = Append(@, r),
                                !.log = Append(@, compose.stubWasms[compose.i]),
                                !.composeWasm = compose.prevComposeWasm]
           [] OTHER ->
                [compose EXCEPT !.awaiting = FALSE,
                                !.results = Append(@, r),
                                !.status = "failed"]
    /\ UNCHANGED notComposeVars

\* build.ts:477-478: after the loop, the last composition is copied to the
\* target
ComposeCopy ==
    /\ compose.status = "running"
    /\ ~compose.awaiting
    /\ compose.i = Len(compose.stubWasms)
    /\ compose' = [compose EXCEPT !.status = "done",
                                  !.targetWasm = compose.composeWasm]
    /\ UNCHANGED notComposeVars

NextCompose ==
    \/ ComposeNext
    \/ \E r \in ComposeResults : ComposeResult(r)
    \/ ComposeCopy

SpecCompose == InitCompose /\ [][NextCompose]_vars

(***************************************************************************)
(* One fresh worker of each component, invoked from outside                *)
(* (part_002:31-49).                                                       *)
(***************************************************************************)
InitWorkers ==
    /\ NoTask
    /\ NoExecutor
    /\ NoDeps
    /\ NoPipeline
    /\ NoCompose
    /\ NoCli
    /\ workers = [state |-> FreshCounters, invoked |-> <<>>,
                  got |-> [comp |-> "", value |-> 0],
                  failed |-> <<>>]

\* part_002:40, 46: invokeWorkerAdd(comp, workerName, value); invoked lists
\* the adds that returned, failed those that threw
InvokeAdd(comp, value, f) ==
    /\ Len(workers.invoked) + Len(workers.failed) < MaxInvocations
    /\ LET r == TryAdd(comp, workers.state, value, f)
           call == [comp |-> comp, value |-> value]
       IN  workers' = [workers EXCEPT
                          !.state = r.state,
                          !.invoked = IF r.ok THEN Append(@, call) ELSE @,
                          !.failed = IF r.ok THEN @ ELSE Append(@, call)]
    /\ UNCHANGED notWorkersVars

\* part_002:35-37: invokeWorkerGet(comp, workerName)
InvokeGet(comp) ==
    /\ workers' = [workers EXCEPT
                      !.got = [comp |-> comp,
                               value |-> Get(comp, workers.state)]]
    /\ UNCHANGED notWorkersVars

NextWorkers ==
    \/ \E comp \in Components, value \in 1..MaxValue, f \in Failures :
          InvokeAdd(comp, value, f)
    \/ \E comp \in Components : InvokeGet(comp)

SpecWorkers == InitWorkers /\ [][NextWorkers]_vars

(***************************************************************************)
(* One call of main(commands), from the reading of the arguments           *)
(* (build-tools.ts:8).                                                     *)
(***************************************************************************)
InitMain ==
    /\ NoTask
    /\ NoExecutor
    /\ NoDeps
    /\ NoPipeline
    /\ NoCompose
    /\ NoWorkers
    /\ \E args \in ArgLines :
          cli = [args |-> args, next |-> 1, running |-> "",
                 started |-> <<>>, completed |-> <<>>, listed |-> <<>>,
                 status |-> "called", error |-> ""]

\* build-tools.ts:10-17: without arguments the commands are listed
MainList ==
    /\ cli.status = "called"
    /\ Len(cli.args) = 0
    /\ cli' = [cli EXCEPT !.listed = CommandNames, !.status = "returned"]
    /\ UNCHANGED notCliVars

\* a bug: the next command is looked up and called without waiting
MainNotAwaited == TRUE

\* build-tools.ts:24: await; the command before has settled
MainAwaited == cli.running = ""

\* build-tools.ts:19-24: the next argument is looked up and its command
\* called
MainCall ==
    /\ cli.status \in {"called", "looping"}
    /\ MainAwaited
    /\ cli.next <= Len(cli.args)
    /\ LET cmd == cli.args[cli.next]
       IN  cli' = IF IsUndefined(cmd)
                  THEN [cli EXCEPT !.status = "threw", !.error = NotFound(cmd)]
                  ELSE [cli EXCEPT !.status = "looping",
                                   !.next = @ + 1,
                                   !.running = cmd,
                                   !.started = Append(@, cmd)]
    /\ UNCHANGED notCliVars

\* build-tools.ts:24: the promise of the command settles
CommandSettles(ok) ==
    /\ cli.status = "looping"
    /\ cli.running # ""
    /\ cli' = IF ok
              THEN [cli EXCEPT !.running = "",
                               !.completed = Append(@, cli.running)]
              ELSE [cli EXCEPT !.running = "", !.status = "threw",
                               !.error = CommandFailed(cli.running)]
    /\ UNCHANGED notCliVars

\* build-tools.ts:19, 26: the loop has ended
MainReturn ==
    /\ cli.status = "looping"
    /\ cli.running = ""
    /\ cli.next > Len(cli.args)
    /\ cli' = [cli EXCEPT !.status = "returned"]
    /\ UNCHANGED notCliVars

NextMain ==
    \/ MainList
    \/ MainCall
    \/ \E ok \in BOOLEAN : CommandSettles(ok)
    \/ MainReturn

SpecMain == InitMain /\ [][NextMain]_vars

(***************************************************************************)
(* The project of build.ts on disk.  A path is the directory it lies in,   *)
(* the component it belongs to and its last name.                          *)
(***************************************************************************)
notProjectVars ==
    <<task, pc, events, verdict, result, prev, executorVars, deps, scriptVars>>

\* build.ts:296-299: componentDependencies, component-one being NameA,
\* component-two NameB and component-three NameC
ProjectDependencies ==
    <<Entry(NameA, <<NameB, NameC>>), Entry(NameB, <<NameC>>)>>
\* build.ts:301-304
ProjectComponents == Range(CompNames(ProjectDependencies))

Path(area, comp, leaf) == [area |-> area, comp |-> comp, leaf |-> leaf]
\* build.ts:289-292: outDir, componentsDir, libDir, generatedDir
ComponentDir(c) == Path("src/components", c, "")
MainTs(c) == Path("src/components", c, "main.ts")
WitDir(c) == Path("src/components", c, "wit")
BindingDir(c) == Path("src/components", c, "generated")
LibDir == Path("src/lib", NoName, "")
BuildTs == Path(".", NoName, "build.ts")
PackageJson == Path(".", NoName, "package.json")
TsConfigJson == Path(".", NoName, "tsconfig.json")
\* build.ts:355-356, 405-406, 422
MainJs(c) == Path("out/build", c, "main.js")
ComponentWasmPath(c) == Path("out/build", c, "component.wasm")
TargetWasm(c) == Path("out/components", c, ".wasm")
\* build.ts:499-501
DestWasm(c) == Path("out/stub", c, "stub.wasm")
DestWitDir(c) == Path("out/stub", c, "wit")
\* build.ts:526-529: the component directory joined with the wit directory
\* that already begins with it
DstWitDepDir(c) ==
    Path("src/components", c, "src/components/wit/deps/golem")
DstWitDepStubDir(c) ==
    Path("src/components", c, "src/components/wit/deps/golem-stub")

ProjectPaths ==
    {LibDir, BuildTs, PackageJson, TsConfigJson}
        \cup UNION {{ComponentDir(c), MainTs(c), WitDir(c), BindingDir(c),
                     MainJs(c), ComponentWasmPath(c), TargetWasm(c),
                     DestWasm(c), DestWitDir(c), DstWitDepDir(c),
                     DstWitDepStubDir(c)} : c \in ProjectComponents}

\* build.ts:424-431
RECURSIVE StubWasms(_)
StubWasms(list) ==
    IF list = <<>> THEN <<>>
    ELSE <<DestWasm(Head(list))>> \o StubWasms(Tail(list))

\* the targets and sources a task function hands to runTask (build.ts:
\* 329-330, 362-363, 411-412, 435-436, 506-507, 534-535)
TaskOf(step) ==
    LET c == step.comp
        T(targets, sources) == [targets |-> targets, sources |-> sources]
    IN  CASE step.kind = "generateBinding" ->
               T(<<BindingDir(c)>>, <<WitDir(c)>>)
          [] step.kind = "rollupComponent" ->
               T(<<MainJs(c)>>,
                 <<ComponentDir(c), LibDir, BuildTs, PackageJson, TsConfigJson>>)
          [] step.kind = "componentize" ->
               T(<<ComponentWasmPath(c)>>, <<MainJs(c)>>)
          [] step.kind = "stubCompose" ->
               T(<<TargetWasm(c)>>,
                 <<ComponentWasmPath(c)>>
                    \o StubWasms(DepsOfComponent(ProjectDependencies, c)))
          [] step.kind = "buildStubComponent" ->
               T(<<DestWasm(c), DestWitDir(c)>>, <<WitDir(c)>>)
          [] OTHER ->
               T(<<DstWitDepDir(c), DstWitDepStubDir(c)>>,
                 <<DestWitDir(step.dep)>>)

FileEntry(t) == [isDir |-> FALSE, mtime |-> t]
SubdirEntry == [isDir |-> TRUE, mtime |-> MaxTime]
\* the entries of a directory as one of a directory above it
Below(node) ==
    IF node.kind = "dir" THEN <<SubdirEntry>> \o node.entries ELSE <<>>

\* readdirSync(componentDir, {recursive: true}) (build-tools.ts:75): main.ts
\* and what lies in wit and in generated
Refresh(f) ==
    [p \in DOMAIN f |->
        IF p.area = "src/components" /\ p.leaf = ""
        THEN Dir(1, <<FileEntry(f[MainTs(p.comp)].mtime)>>
                        \o Below(f[WitDir(p.comp)])
                        \o Below(f[BindingDir(p.comp)]))
        ELSE f[p]]

\* the files of a checkout: the sources, nothing built or generated
Checkout ==
    Refresh([p \in ProjectPaths |->
        CASE p \in {BuildTs, PackageJson, TsConfigJson} -> File(1)
          [] p = LibDir -> Dir(1, <<FileEntry(1)>>)
          [] p.area = "src/components" /\ p.leaf = "main.ts" -> File(1)
          [] p.area = "src/components" /\ p.leaf = "wit" ->
               Dir(1, <<FileEntry(1)>>)
          [] OTHER -> Absent])

\* what the body of a task writes when it succeeds at the instant now
\* (build.ts:329, 390-392, 414, 477-478, 508-517, 536-545)
Written(f, step, now) ==
    LET c == step.comp
    IN  Refresh(
        CASE step.kind = "generateBinding" ->
               [f EXCEPT ![BindingDir(c)] = Dir(now, <<FileEntry(now)>>)]
          [] step.kind = "rollupComponent" ->
               [f EXCEPT ![MainJs(c)] = File(now)]
          [] step.kind = "componentize" ->
               [f EXCEPT ![ComponentWasmPath(c)] = File(now)]
          [] step.kind = "stubCompose" ->
               [f EXCEPT ![TargetWasm(c)] = File(now)]
          [] step.kind = "buildStubComponent" ->
               [f EXCEPT ![DestWasm(c)] = File(now),
                         ![DestWitDir(c)] = Dir(now, <<FileEntry(now)>>)]
          [] OTHER ->
               [f EXCEPT ![WitDir(c)] =
                    Dir(now, <<Head(@.entries), SubdirEntry, FileEntry(now)>>)])

\* a bug: the generated directories are left behind
CleanPathsOutOnly(p) == p.area \in {"out/build", "out/components", "out/stub"}

\* build.ts:629-632: out and the generated directory of every component
CleanPaths(p) ==
    \/ p.area \in {"out/build", "out/components", "out/stub"}
    \/ p = BindingDir(p.comp) /\ p.comp \in ProjectComponents

\* build.ts:634-637: rmSync(path, {recursive: true, force: true})
Cleaned(f) == Refresh([p \in DOMAIN f |-> IF CleanPaths(p) THEN Absent ELSE f[p]])

\* the arguments of an invocation that builds (README.md:21-37): build,
\* updateRpcStubs, or updateRpcStubs build
CommandLines ==
    {<<"build">>, <<"updateRpcStubs">>, <<"updateRpcStubs", "build">>}

\* build-tools.ts:19-25: the calls of the commands, one command after the
\* other
RECURSIVE CallsOfLine(_)
CallsOfLine(line) ==
    IF line = <<>> THEN <<>>
    ELSE Calls(Head(line), ProjectDependencies) \o CallsOfLine(Tail(line))

Idle == pipeline.command = "none"

\* a checkout on which no command has run yet
InitProject ==
    /\ fs = Checkout
    /\ task = [targets |-> <<>>, sources |-> <<>>,
               runMessage |-> "", skipMessage |-> ""]
    /\ pc = "idle"
    /\ events = <<>>
    /\ verdict = "none"
    /\ result = NoError
    /\ prev = NoCall
    /\ NoExecutor
    /\ NoDeps
    /\ NoScripts
    /\ pipeline = [command |-> "none", map |-> ProjectDependencies,
                   calls |-> <<>>, running |-> {}, trace |-> <<>>,
                   aborted |-> FALSE]
    /\ cur = [now |-> 1, commands |-> 0, sinceClean |-> "never",
              repeat |-> FALSE]

\* the invocation before ran line to its end without an error, and the
\* files are as it left them: its trace is kept until they change
JustCompleted(line) ==
    /\ ~pipeline.aborted
    /\ Len(pipeline.trace) = Len(CallsOfLine(line))
    /\ \A i \in 1..Len(pipeline.trace) :
          pipeline.trace[i] = Happened(CallsOfLine(line)[i], pipeline.trace[i].what)

\* main is called with the names of build, of updateRpcStubs or of both
\* (build-tools.ts:7-26, build.ts:269-286)
StartCommand(line) ==
    /\ Idle
    /\ cur.commands < MaxCommands
    /\ pipeline' = [pipeline EXCEPT
                       !.command = line,
                       !.calls = CallsOfLine(line),
                       !.trace = <<>>,
                       !.aborted = FALSE]
    /\ cur' = [cur EXCEPT !.commands = @ + 1,
                          !.repeat = JustCompleted(line),
                          !.sinceClean =
                  CASE @ = "cleaned" -> "first"
                    [] @ = "first" -> "later"
                    [] OTHER -> @]
    /\ UNCHANGED <<fs, notProjectVars>>

\* main is called with clean (build.ts:628-638), which has no await in it
Clean ==
    /\ Idle
    /\ cur.commands < MaxCommands
    /\ fs' = Cleaned(fs)
    /\ pipeline' = [pipeline EXCEPT !.trace = <<>>, !.aborted = FALSE]
    /\ cur' = [cur EXCEPT !.commands = @ + 1, !.repeat = FALSE,
                          !.sinceClean = "cleaned"]
    /\ UNCHANGED notProjectVars

\* the tools of a body read its sources
CanSucceed(step) ==
    \A i \in 1..Len(TaskOf(step).sources) :
        fs[TaskOf(step).sources[i]].kind # "absent"

\* runTask on the next task of the command (build-tools.ts:36-94): the
\* check, and the body when the task is stale
RunTask(ok) ==
    /\ ~Idle
    /\ pipeline.calls # <<>>
    /\ ~pipeline.aborted
    /\ LET step == Head(pipeline.calls)
           check == UpToDateCheck(TaskOf(step))
           what == CASE check.verdict = "throw" -> "throw"
                     [] check.verdict = "skip" -> "skip"
                     [] ok /\ CanSucceed(step) -> "run"
                     [] OTHER -> "failed"
       IN  /\ ok \/ check.verdict = "run"
           /\ pipeline' = [pipeline EXCEPT
                              !.calls = Tail(@),
                              !.trace = Append(@, Happened(step, what)),
                              !.aborted = what \in {"throw", "failed"}]
           /\ fs' = IF what = "run" THEN Written(fs, step, cur.now) ELSE fs
    /\ UNCHANGED <<cur, notProjectVars>>

\* main returns or rejects (build-tools.ts:19-26)
CommandEnds ==
    /\ ~Idle
    /\ pipeline.calls = <<>> \/ pipeline.aborted
    /\ pipeline' = [pipeline EXCEPT !.command = "none", !.calls = <<>>]
    /\ UNCHANGED <<fs, cur, notProjectVars>>

\* between two invocations a source of a component is edited, once
EditSource(c, wit) ==
    /\ Idle
    /\ cur.now = 1
    /\ cur' = [cur EXCEPT !.now = @ + 1]
    /\ fs' = Refresh(
                IF wit
                THEN [fs EXCEPT ![WitDir(c)] =
                        Dir(@.mtime, <<FileEntry(cur.now + 1)>> \o Tail(@.entries))]
                ELSE [fs EXCEPT ![MainTs(c)] = File(cur.now + 1)])
    /\ pipeline' = [pipeline EXCEPT !.trace = <<>>, !.aborted = FALSE]
    /\ UNCHANGED notProjectVars

NextProject ==
    \/ \E line \in CommandLines : StartCommand(line)
    \/ Clean
    \/ \E ok \in BOOLEAN : RunTask(ok)
    \/ CommandEnds
    \/ \E c \in ProjectComponents, wit \in BOOLEAN : EditSource(c, wit)

SpecProject == InitProject /\ [][NextProject]_vars

(***************************************************************************)
(* One run of build or updateRpcStubs on the dependency map of build.ts,   *)
(* in which the event loop goes on for as long as something can happen:    *)
(* every child that was started ends, every body settles.                  *)
(***************************************************************************)
\* build.ts:296-299 as it stands, and with a component that has no
\* dependency
TerminationMaps ==
    {ProjectDependencies, Append(ProjectDependencies, Entry(NameD, <<>>))}

InitTermination ==
    /\ NoTask
    /\ NoExecutor
    /\ NoDeps
    /\ NoScripts
    /\ \E command \in PipelineCommands, m \in TerminationMaps :
          pipeline = [command |-> command, map |-> m,
                      calls |-> Calls(command, m),
                      running |-> {}, trace |-> <<>>, aborted |-> FALSE]

SpecTermination ==
    InitTermination /\ [][NextPipeline]_vars /\ WF_vars(NextPipeline)

(***************************************************************************)
(* Vocabulary of the properties.                                           *)
(***************************************************************************)
Called == pc # "idle"
Targets == Range(task.targets)
Sources == Range(task.sources)
Exists(p) == fs[p].kind \in {"file", "dir"}
\* every declared path can be inspected: sources exist, and no declared
\* path fails inspection for another reason than its absence
Inspectable ==
    /\ \A p \in Sources : Exists(p)
    /\ \A p \in Targets : fs[p] # Fault
\* the instants of the regular files of a node: the plain file itself, or
\* the regular files beneath the directory
FileInstants(node) ==
    IF node.kind = "file" THEN {node.mtime}
    ELSE {node.entries[i].mtime :
            i \in {j \in 1..Len(node.entries) : ~node.entries[j].isDir}}
Least(S) == CHOOSE m \in S : \A n \in S : m <= n

(***************************************************************************)
(* C1: an absent target forces a rebuild.  When every source exists and    *)
(* the task declares a target that does not exist, at whatever position,   *)
(* runTask decides stale and invokes the body, whatever the instants of    *)
(* the sources and of the other targets are.                               *)
(***************************************************************************)
AbsentTargetForcesRun ==
    (Called /\ Inspectable /\ \E p \in Targets : fs[p] = Absent)
        => verdict = "run" /\ BodyCalls = 1

\* the absent target comes second, after a target newer than every source
AbsentTargetWitness ==
    /\ pc = "awaiting"
    /\ task.targets = TargetPaths
    /\ fs[TargetPaths[1]] = File(MaxTime)
    /\ fs[TargetPaths[2]] = Absent
    /\ task.sources = <<SourcePaths[1]>>
    /\ fs[SourcePaths[1]] = File(1)
    /\ BodyCalls = 1

(***************************************************************************)
(* C2: for one existing plain-file target with instant t0 and one existing *)
(* plain-file source with instant t1, the body runs if and only if         *)
(* t1 > t0; on a tie the task is up to date and the body is skipped.       *)
(***************************************************************************)
FileAgainstFile ==
    (/\ Called
     /\ task.targets = <<TargetPaths[1]>> /\ fs[TargetPaths[1]].kind = "file"
     /\ task.sources = <<SourcePaths[1]>> /\ fs[SourcePaths[1]].kind = "file")
        => /\ BodyCalls = (IF fs[SourcePaths[1]].mtime > fs[TargetPaths[1]].mtime
                           THEN 1 ELSE 0)
           /\ BodyCalls = 0 => pc = "returned" /\ verdict = "skip"

TieWitness ==
    /\ pc = "returned"
    /\ task.targets = <<TargetPaths[1]>> /\ fs[TargetPaths[1]] = File(2)
    /\ task.sources = <<SourcePaths[1]>> /\ fs[SourcePaths[1]] = File(2)
    /\ BodyCalls = 0

(***************************************************************************)
(* C3: directory target pessimism.  The watermark of an existing directory *)
(* target is exactly the least instant of the regular files beneath it,    *)
(* whatever the instant of the directory entry itself: against one         *)
(* plain-file source the body runs if and only if the source is strictly   *)
(* newer than that least instant.                                          *)
(***************************************************************************)
DirTargetWatermarkIsLeastFile ==
    (/\ Called
     /\ task.targets = <<TargetPaths[1]>> /\ fs[TargetPaths[1]].kind = "dir"
     /\ FileInstants(fs[TargetPaths[1]]) # {}
     /\ task.sources = <<SourcePaths[1]>> /\ fs[SourcePaths[1]].kind = "file")
        => BodyCalls = (IF fs[SourcePaths[1]].mtime
                              > Least(FileInstants(fs[TargetPaths[1]]))
                        THEN 1 ELSE 0)

(***************************************************************************)
(* C4: directory source any-newer.  When some existing target has          *)
(* watermark w and some regular file beneath a directory source is         *)
(* strictly newer than w, the task is stale, however old the other members *)
(* are.                                                                    *)
(***************************************************************************)
DirSourceAnyNewer ==
    (/\ Called /\ Inspectable
     /\ \E p \in Targets, d \in Sources :
            /\ Exists(p)
            /\ fs[d].kind = "dir"
            /\ \E t \in FileInstants(fs[d]) : t > TargetModifiedMs(fs[p]))
        => verdict = "run" /\ BodyCalls = 1

\* members {1, 3} against a watermark of 2: the older member comes first
DirSourceWitness ==
    /\ pc = "awaiting"
    /\ task.targets = <<TargetPaths[1]>> /\ fs[TargetPaths[1]] = File(2)
    /\ task.sources = <<SourcePaths[1]>>
    /\ fs[SourcePaths[1]].kind = "dir"
    /\ fs[SourcePaths[1]].entries = <<[isDir |-> FALSE, mtime |-> 1],
                                      [isDir |-> FALSE, mtime |-> 3]>>
    /\ BodyCalls = 1

(***************************************************************************)
(* C5: a task that declares no target has its body invoked by every        *)
(* runTask call, repeated calls included, whatever its sources are.        *)
(***************************************************************************)
EmptyTargetsAlwaysRun ==
    (Called /\ task.targets = <<>>) => verdict = "run" /\ BodyCalls = 1

\* a repeated call, with a source that does not even exist
EmptyTargetsWitness ==
    /\ task.targets = <<>>
    /\ prev.outcome = "ok"
    /\ pc = "awaiting"
    /\ BodyCalls = 1
    /\ task.sources # <<>>
    /\ fs[SourcePaths[1]] = Absent

(***************************************************************************)
(* C6: idempotence.  With every declared target absent the first runTask   *)
(* invokes the body; when that body succeeded and has created every        *)
(* declared target at an instant not earlier than any source instant, the  *)
(* next runTask of the same task does not invoke the body.                 *)
(***************************************************************************)
AllTargetsAbsent == \A p \in Targets : fs[p] = Absent
SourceInstants == UNION {FileInstants(fs[p]) : p \in Sources}
TargetInstants(p) == {fs[p].mtime} \cup FileInstants(fs[p])
CreatedLate ==
    \A p \in Targets :
        /\ Exists(p)
        /\ \A t \in TargetInstants(p), u \in SourceInstants : t >= u
\* the call that just ended began with no target, and its body succeeded
CleanBuildDone == pc = "returned" /\ Outcome = "ok" /\ cur.clean

\* the claim as stated, for every task
Idempotence ==
    [][/\ (pc = "idle" /\ AllTargetsAbsent) => BodyCalls' = 1
       /\ (CleanBuildDone /\ CreatedLate) => BodyCalls' = 0]_vars

\* the claim for the tasks that declare at least one target
IdempotenceWithTargets ==
    [][/\ (pc = "idle" /\ AllTargetsAbsent) => BodyCalls' = 1
       /\ (CleanBuildDone /\ CreatedLate /\ task.targets # <<>>)
              => BodyCalls' = 0]_vars

\* the second call skips: both targets were created at the instant of the
\* newest source file
IdempotenceWitness ==
    /\ pc = "returned" /\ verdict = "skip"
    /\ prev.outcome = "ok" /\ prev.clean
    /\ task.targets = TargetPaths
    /\ CreatedLate
    /\ MaxTime \in SourceInstants

(***************************************************************************)
(* C7: skip branch.  When the check decides up to date, runTask returns    *)
(* successfully without invoking the body and logs exactly one line: the   *)
(* targets joined by commas, then the skip message; the run message is not *)
(* logged.                                                                 *)
(***************************************************************************)
JoinedTargets ==
    IF Len(task.targets) = 1 THEN "out/a" ELSE "out/a,out/b"

SkipBranchQuiet ==
    (Called /\ verdict = "skip")
        => /\ pc = "returned" /\ result = NoError
           /\ BodyCalls = 0
           /\ LogLines = <<Log(JoinedTargets \o " is up to date, skipping "
                                             \o task.skipMessage)>>
           /\ \A i \in 1..Len(events) : events[i] # Log(task.runMessage)

SkipWitness ==
    /\ pc = "returned" /\ verdict = "skip"
    /\ task.targets = TargetPaths
    /\ LogLines = <<Log("out/a,out/b is up to date, skipping stub component build")>>

(***************************************************************************)
(* C8: run branch.  When the check decides stale, runTask logs the run     *)
(* message, then invokes the body, exactly once, and has not completed as  *)
(* long as the body's promise has not settled.                             *)
(***************************************************************************)
RunBranchAwaits ==
    (Called /\ verdict = "run")
        => /\ Len(events) >= 2
           /\ events[1] = Log(task.runMessage)
           /\ events[2] = Invoke
           /\ BodyCalls = 1
           /\ pc \in {"returned", "threw"}
                  <=> (Len(events) = 3 /\ events[3].ev = "settle")
           /\ pc = "awaiting" <=> Len(events) = 2

RunBranchWitness ==
    /\ pc = "awaiting" /\ verdict = "run"
    /\ events = <<Log("Building stub component"), Invoke>>
    /\ task.targets # <<>>

(***************************************************************************)
(* C9: runTask never fails on its own.                                     *)
(***************************************************************************)
\* the claim as stated: runTask fails only if the body was invoked and
\* failed
FailsOnlyByBody ==
    pc = "threw" => BodyCalls = 1 /\ result.origin = "body"

\* runTask fails only if the body was invoked and failed, or if the check
\* could not inspect a declared path: a source that is missing or whose
\* inspection fails, or a target whose inspection fails for another reason
\* than its absence.  An absent target never makes it fail.
FailsOnlyByBodyOrInspection ==
    pc = "threw" =>
        \/ BodyCalls = 1 /\ verdict = "run" /\ result.origin = "body"
        \/ /\ BodyCalls = 0 /\ verdict = "throw" /\ events = <<>>
           /\ result.origin = "fs"
           /\ \/ /\ result.path \in Sources
                 /\ \/ fs[result.path] = Absent /\ result.code = "ENOENT"
                    \/ fs[result.path] = Fault /\ result.code = "EACCES"
              \/ /\ result.path \in Targets
                 /\ fs[result.path] = Fault /\ result.code = "EACCES"

\* the check fails on a missing source, the body not having been invoked
MissingSourceWitness ==
    /\ pc = "threw" /\ verdict = "throw"
    /\ BodyCalls = 0
    /\ result = FsError("ENOENT", SourcePaths[1])
    /\ Exists(TargetPaths[1])

(***************************************************************************)
(* C10: a failure of the body propagates unchanged.  When the body is      *)
(* invoked and its promise rejects with e, runTask fails with that same e; *)
(* the body is not invoked again.                                          *)
(***************************************************************************)
BodyFailurePropagates ==
    (pc \in {"returned", "threw"} /\ BodyCalls >= 1)
        => LET settled == events[Len(events)]
           IN  /\ settled.ev = "settle"
               /\ BodyCalls = 1
               /\ settled.text \in BodyErrors
                      => pc = "threw" /\ result = BodyError(settled.text)

BodyFailureWitness ==
    /\ pc = "threw"
    /\ BodyCalls = 1
    /\ events[Len(events)] = Settle("E2")
    /\ result = BodyError("E2")

(***************************************************************************)
(* C11: a missing source is an error, never a verdict.                     *)
(***************************************************************************)
MissingSource == \E p \in Sources : fs[p] = Absent

\* C11 as stated: whenever a declared source does not exist, the check
\* fails with an error; it decides neither run nor skip
MissingSourceAlwaysFails ==
    (Called /\ MissingSource) => verdict = "throw" /\ BodyCalls = 0

\* the j-th source is the first one missing, and the check gets to it: the
\* first target exists and no source before the j-th is strictly newer than
\* that target's watermark
ReachesMissingSource(j) ==
    /\ task.targets # <<>>
    /\ Exists(task.targets[1])
    /\ j \in 1..Len(task.sources)
    /\ fs[task.sources[j]] = Absent
    /\ \A i \in 1..(j - 1) :
        /\ Exists(task.sources[i])
        /\ \A t \in FileInstants(fs[task.sources[i]]) :
               t <= TargetModifiedMs(fs[task.targets[1]])

\* C11, for the sources the check gets to: whenever the check examines a
\* source that does not exist, it fails with the ENOENT error of that
\* source: the body is neither run nor skipped and nothing is logged
ExaminedMissingSourceFails ==
    \A j \in 1..Len(task.sources) :
        (Called /\ ReachesMissingSource(j))
            => /\ verdict = "throw" /\ pc = "threw"
               /\ result = FsError("ENOENT", task.sources[j])
               /\ events = <<>>

\* the second source is missing; the first one is older than the target
ExaminedMissingSourceWitness ==
    /\ pc = "threw"
    /\ task.targets = <<TargetPaths[1]>> /\ fs[TargetPaths[1]] = File(2)
    /\ task.sources = SourcePaths
    /\ fs[SourcePaths[1]] = File(1)
    /\ fs[SourcePaths[2]] = Absent
    /\ result = FsError("ENOENT", SourcePaths[2])

(***************************************************************************)
(* C12: idempotent retry after an abort.                                   *)
(***************************************************************************)
\* the output of the body is all there: the file target is a file, the
\* directory target holds all its files
Complete(p) ==
    IF p = TargetPaths[1] THEN fs[p].kind = "file"
    ELSE fs[p].kind = "dir" /\ Len(fs[p].entries) = DirFiles
\* the body failed after writing some of its output and not the rest
PartialAbort ==
    /\ pc = "threw" /\ result \in {BodyError(e) : e \in BodyErrors}
    /\ \E p \in Targets : Exists(p)
    /\ \E p \in Targets : ~Complete(p)

\* C12: when the body of a task whose declared paths can all be inspected
\* fails after having written a part of its targets, the next runTask of the
\* task, the filesystem being as the body left it, decides stale and
\* invokes the body again
RetryAfterAbort ==
    [][(PartialAbort /\ Inspectable /\ Call)
          => verdict' = "run" /\ pc' = "awaiting"]_vars

(***************************************************************************)
(* Vocabulary of the executor properties.                                  *)
(***************************************************************************)
\* the child was started and has closed, with a status or after a signal
ClosedAfterRunning == child.state = "closed" /\ child.code \in ExitCodes
\* the child could not be started and has reported it
SpawnFailureReported ==
    \/ child.state = "failed"
    \/ child.state = "closed" /\ child.code = SpawnFailed
\* the chunks of a stream, one after the other
Concat(chunks) == Join(chunks, "")

(***************************************************************************)
(* C13: outcome of the streaming executor.  The promise of run resolves    *)
(* if and only if the child closes with exit code exactly 0; when a child  *)
(* that was started closes with any other code, null after a signal        *)
(* included, the promise rejects with an error whose message holds the     *)
(* command, the arguments joined by spaces, and the exit code.             *)
(***************************************************************************)
RunOutcome ==
    child.fn = "run" =>
        /\ promise.state = "resolved"
              <=> (child.state = "closed" /\ child.code = Code(0))
        /\ (ClosedAfterRunning /\ child.code # Code(0)) =>
              promise = Rejected(ExitError(
                  "Command [" \o child.command \o " "
                      \o Join(child.args, " ")
                      \o "] failed with exit code " \o CodeText(child.code)))

\* a child killed by a signal
RunOutcomeWitness ==
    /\ child.fn = "run" /\ child.state = "closed" /\ child.code = Null
    /\ child.args = <<"stubgen", "build">>
    /\ promise.state = "rejected"
    /\ promise.error.message
         = "Command [golem-cli stubgen build] failed with exit code null"

(***************************************************************************)
(* C14: outcome of the capturing executor.  When a child that was started  *)
(* closes, the promise of runCapture resolves whatever the exit code is,   *)
(* with a record whose code is the close code of the child and whose cmd   *)
(* is the command followed by the arguments joined by single spaces.       *)
(***************************************************************************)
CaptureOutcome ==
    (child.fn = "runCapture" /\ ClosedAfterRunning) =>
        /\ promise.state = "resolved"
        /\ promise.value.code = child.code
        /\ promise.value.cmd = child.command \o " " \o Join(child.args, " ")

\* a child that exits with status 2
CaptureOutcomeWitness ==
    /\ child.fn = "runCapture" /\ child.state = "closed"
    /\ child.code = Code(2)
    /\ child.args = <<"stubgen", "build">>
    /\ promise.state = "resolved"
    /\ promise.value.code = Code(2)
    /\ promise.value.cmd = "golem-cli stubgen build"

(***************************************************************************)
(* C15: the captured output is what the child wrote.  In the record that   *)
(* runCapture resolves with, stdout is the concatenation, in the order of  *)
(* arrival, of the chunks the child emitted on its standard output, the    *)
(* empty text when there was none, and stderr likewise; nothing is added.  *)
(***************************************************************************)
CaptureAccumulates ==
    (child.fn = "runCapture" /\ promise.state = "resolved") =>
        /\ promise.value.stdout = Str(Concat(child.out))
        /\ promise.value.stderr = Str(Concat(child.err))

(***************************************************************************)
(* C16: failure to start the child.  For run and for runCapture, once the  *)
(* child has reported by an 'error' event that it could not be started,    *)
(* the promise is rejected with that error, and stays so when the child    *)
(* closes afterwards; runCapture does not resolve with a record.           *)
(***************************************************************************)
SpawnFailureRejects ==
    SpawnFailureReported => promise = Rejected(SpawnError(child.command))

\* runCapture, after the 'close' that follows the 'error'
SpawnFailureWitness ==
    /\ child.fn = "runCapture"
    /\ child.state = "closed" /\ child.code = SpawnFailed
    /\ promise.state = "rejected"
    /\ promise.error = SpawnError("golem-cli")

(***************************************************************************)
(* C17: dependency closure.  For every dependency map, the list that       *)
(* allDepsSorted returns holds exactly the names that occur in some value  *)
(* list of the map (a key only if it is also a value), each of them once,  *)
(* in ascending lexicographic order; {A:[B,C], D:[C]} gives [B,C].         *)
(***************************************************************************)
ValueNames ==
    UNION {Range(deps.map[i].deps) : i \in 1..Len(deps.map)}

DependencyClosure ==
    deps.called =>
        /\ Range(deps.returned) = ValueNames
        /\ Len(deps.returned) = Cardinality(ValueNames)
        /\ \A i \in 1..(Len(deps.returned) - 1) :
               LexLess(deps.returned[i], deps.returned[i + 1])
        /\ deps.map = <<Entry(NameA, <<NameB, NameC>>), Entry(NameD, <<NameC>>)>>
              => deps.returned = <<NameB, NameC>>

\* C is depended on twice and inserted before B; the keys A and D are no
\* values
DependencyClosureWitness ==
    /\ deps.called
    /\ deps.map = <<Entry(NameA, <<NameC, NameB>>), Entry(NameD, <<NameC>>)>>
    /\ deps.returned = <<NameB, NameC>>

LiveChildren == {r \in pipeline.running : r.child}

NoConcurrency ==
    /\ Cardinality(pipeline.running) <= 1
    /\ Cardinality(LiveChildren) <= 1

\* the second compose of a component with two dependencies is under way,
\* after the tasks before it have run
NoConcurrencyWitness ==
    /\ pipeline.command = "build"
    /\ \E r \in pipeline.running :
          r.step.kind = "stubCompose" /\ r.step.spawns = 2
            /\ r.left = 0 /\ r.child
    /\ Len(pipeline.trace) > 6

(***************************************************************************)
(* C20: dependencies are built before dependants.  In updateRpcStubs the   *)
(* stub-build tasks of the members of the dependency closure run in        *)
(* ascending lexicographic order of the names and have all completed       *)
(* before the first add-stub-dependency task starts; the                   *)
(* add-stub-dependency tasks then run once for every (component,           *)
(* dependency) pair, in the declared order of the entries of the map and   *)
(* of the list of each entry.                                              *)
(***************************************************************************)
ClosureOf(m) == UNION {Range(m[i].deps) : i \in 1..Len(m)}

RECURSIVE DeclaredPairs(_)
DeclaredPairs(m) ==
    IF m = <<>> THEN <<>>
    ELSE [i \in 1..Len(Head(m).deps) |-> <<Head(m).key, Head(m).deps[i]>>]
            \o DeclaredPairs(Tail(m))

StubStarts ==
    SelectSeq(pipeline.trace,
              LAMBDA e : e.kind = "buildStubComponent" /\ e.what = "start")
AddStarts ==
    SelectSeq(pipeline.trace,
              LAMBDA e : e.kind = "addStubDependency" /\ e.what = "start")
\* the trace up to the first start of an add-stub-dependency task
BeforeFirstAdd ==
    LET tr == pipeline.trace
        first == CHOOSE i \in 1..Len(tr) :
                    /\ tr[i].kind = "addStubDependency"
                    /\ \A j \in 1..(i - 1) : tr[j].kind # "addStubDependency"
    IN  SubSeq(tr, 1, first - 1)
PipelineFinished ==
    pipeline.calls = <<>> /\ pipeline.running = {} /\ ~pipeline.aborted

DependenciesFirst ==
    pipeline.command = "updateRpcStubs" =>
        /\ \A i \in 1..Len(StubStarts) :
              StubStarts[i].comp \in ClosureOf(pipeline.map)
        /\ \A i \in 1..(Len(StubStarts) - 1) :
              LexLess(StubStarts[i].comp, StubStarts[i + 1].comp)
        /\ AddStarts # <<>> =>
              \A n \in ClosureOf(pipeline.map) :
                 \E j \in 1..Len(BeforeFirstAdd) :
                    BeforeFirstAdd[j] =
                        [kind |-> "buildStubComponent", comp |-> n,
                         dep |-> NoName, what |-> "done"]
        /\ Len(AddStarts) <= Len(DeclaredPairs(pipeline.map))
        /\ \A i \in 1..Len(AddStarts) :
              <<AddStarts[i].comp, AddStarts[i].dep>>
                  = DeclaredPairs(pipeline.map)[i]
        /\ PipelineFinished =>
              Len(AddStarts) = Len(DeclaredPairs(pipeline.map))

\* {A: [D, C], D: [C]}, the shape of the map of build.ts: the stubs of C
\* and D are built, in this order, then the three pairs are served
DependenciesFirstWitness ==
    /\ pipeline.command = "updateRpcStubs"
    /\ pipeline.map = <<Entry(NameA, <<NameD, NameC>>), Entry(NameD, <<NameC>>)>>
    /\ PipelineFinished
    /\ Len(StubStarts) = 2 /\ StubStarts[1].comp = NameC
    /\ Len(AddStarts) = 3 /\ AddStarts[3].comp = NameD

(***************************************************************************)
(* C21: ordered steps and abort on error.  build takes the components one  *)
(* after another and runs, for each, generateBinding, rollupComponent,     *)
(* componentize and stubCompose in this order, each starting only after    *)
(* the one before has completed; when a step fails, no later step of the   *)
(* component and no step of a later component is started, and build fails. *)
(***************************************************************************)
BuildKinds ==
    <<"generateBinding", "rollupComponent", "componentize", "stubCompose">>

\* the trace is start, done, start, done, ... of the steps in their order
InBuildOrder(tr, comps) ==
    /\ Len(tr) <= 2 * Len(BuildKinds) * Len(comps)
    /\ \A i \in 1..Len(tr) :
          LET n == (i + 1) \div 2
          IN  /\ tr[i].what = (IF i % 2 = 1 THEN "start" ELSE "done")
              /\ tr[i].kind = BuildKinds[((n - 1) % Len(BuildKinds)) + 1]
              /\ tr[i].comp = comps[((n - 1) \div Len(BuildKinds)) + 1]

OrderedStepsAbortOnError ==
    [][pipeline.command = "build" =>
          /\ InBuildOrder(pipeline'.trace, CompNames(pipeline.map))
          /\ pipeline.aborted =>
                /\ pipeline'.aborted
                /\ pipeline'.trace = pipeline.trace
                /\ pipeline'.running = {}
          /\ (~pipeline.aborted /\ pipeline'.aborted) =>
                /\ pipeline'.running = {}
                /\ Len(pipeline'.trace) % 2 = 1]_vars

\* componentize of the second component fails; build has stopped there
OrderedStepsWitness ==
    /\ pipeline.command = "build"
    /\ pipeline.aborted
    /\ Len(pipeline.trace) = 13
    /\ pipeline.trace[13].kind = "componentize"
    /\ pipeline.calls # <<>>

(***************************************************************************)
(* Vocabulary of the properties about several targets and sources.         *)
(***************************************************************************)
\* every declared target and source exists and can be inspected
AllExist == \A p \in Targets \cup Sources : Exists(p)
\* a regular file of source q is strictly newer than the watermark of
\* target p
FileNewerThan(q, p) ==
    \E t \in FileInstants(fs[q]) : t > TargetModifiedMs(fs[p])
\* the instants that directories carry at or beneath source q: its own, and
\* those of its subdirectories
DirInstants(node) ==
    IF node.kind # "dir" THEN {}
    ELSE {node.mtime} \cup
         {node.entries[i].mtime :
            i \in {j \in 1..Len(node.entries) : node.entries[j].isDir}}

(***************************************************************************)
(* C22: directories carry no instant for sources.  A directory source      *)
(* whose own instant, or that of a subdirectory beneath it, is strictly    *)
(* newer than the watermark of a target does not make the task stale when  *)
(* no regular file of any source is strictly newer than the watermark of   *)
(* any target.                                                             *)
(***************************************************************************)
SourceDirInstantsIgnored ==
    (/\ Called /\ task.targets # <<>> /\ AllExist
     /\ \E q \in Sources, p \in Targets :
           \E t \in DirInstants(fs[q]) : t > TargetModifiedMs(fs[p])
     /\ \A q \in Sources, p \in Targets : ~FileNewerThan(q, p))
        => verdict = "skip" /\ BodyCalls = 0

\* the source directory and its subdirectory are newer than the target,
\* the file beneath it is older
SourceDirInstantsWitness ==
    /\ pc = "returned" /\ verdict = "skip"
    /\ task.targets = <<TargetPaths[1]>> /\ fs[TargetPaths[1]] = File(2)
    /\ task.sources = <<SourcePaths[1]>>
    /\ fs[SourcePaths[1]] =
         Dir(MaxTime, <<[isDir |-> FALSE, mtime |-> 1],
                        [isDir |-> TRUE, mtime |-> MaxTime]>>)

(***************************************************************************)
(* C23: short-circuit.  As soon as one comparison of a source with a       *)
(* target, or one absent target, shows the task stale, the check ends with *)
(* the verdict stale; no target or source that comes later in the order of *)
(* evaluation is examined, so that a later path that is missing or cannot  *)
(* be read does not turn the outcome into an error.                        *)
(***************************************************************************)
\* source j is the first to show target p stale: it exists and holds a
\* newer file, the sources before it exist and hold none
FirstNewerSource(j, p) ==
    /\ Exists(task.sources[j]) /\ FileNewerThan(task.sources[j], p)
    /\ \A l \in 1..(j - 1) :
          Exists(task.sources[l]) /\ ~FileNewerThan(task.sources[l], p)
\* target i is the first to show the task stale: the targets before it
\* exist and no source is newer than any of them
FirstStaleTarget(i) ==
    /\ \A k \in 1..(i - 1) :
          /\ Exists(task.targets[k])
          /\ \A q \in Sources : Exists(q) /\ ~FileNewerThan(q, task.targets[k])
    /\ \/ fs[task.targets[i]] = Absent
       \/ /\ Exists(task.targets[i])
          /\ \E j \in 1..Len(task.sources) :
                FirstNewerSource(j, task.targets[i])

ShortCircuit ==
    (Called /\ \E i \in 1..Len(task.targets) : FirstStaleTarget(i))
        => verdict = "run" /\ BodyCalls = 1

\* the first source is newer than the first target; the second source is
\* missing and the second target cannot be read
ShortCircuitWitness ==
    /\ pc = "awaiting" /\ verdict = "run"
    /\ task.targets = TargetPaths /\ task.sources = SourcePaths
    /\ fs[TargetPaths[1]] = File(1) /\ fs[TargetPaths[2]] = Fault
    /\ fs[SourcePaths[1]] = File(2) /\ fs[SourcePaths[2]] = Absent

(***************************************************************************)
(* C24: soft skip and hard failure in the composition of stubs.  In the    *)
(* body of stubCompose a compose command that exits non-zero with a        *)
(* standard error holding both "Error: no dependencies of component" and   *)
(* "were found" is skipped without error, and the loop goes on with the    *)
(* next stub; any other non-zero exit makes the body fail, and the target  *)
(* wasm is then not written.                                               *)
(***************************************************************************)
SoftSkip(r) ==
    /\ r.code # Code(0)
    /\ \E i, j \in 1..Len(r.stderr.parts) :
          r.stderr.parts[i] = "Error: no dependencies of component"
            /\ r.stderr.parts[j] = "were found"
HardFailure(r) == r.code # Code(0) /\ ~SoftSkip(r)
\* how often the stubs up to the k-th have been skipped
SkipsUpTo(k) ==
    Cardinality({n \in 1..k : SoftSkip(compose.results[n])})

SoftSkipHardFailure ==
    \A k \in 1..Len(compose.results) :
        /\ SoftSkip(compose.results[k]) =>
              /\ Len(compose.log) >= SkipsUpTo(k)
              /\ compose.log[SkipsUpTo(k)] = compose.stubWasms[k]
              /\ k = Len(compose.results) => compose.status # "failed"
              /\ (k = Len(compose.results) /\ k < Len(compose.stubWasms))
                    => compose.status = "running"
        /\ HardFailure(compose.results[k]) =>
              /\ k = Len(compose.results)
              /\ compose.status = "failed"
              /\ compose.targetWasm = ""

\* the first stub is not used and skipped, the second composition fails
SoftSkipHardFailureWitness ==
    /\ Len(compose.results) = 2
    /\ SoftSkip(compose.results[1])
    /\ HardFailure(compose.results[2])
    /\ compose.results[2].stderr.defined
    /\ compose.log = <<StubNames[1]>>
    /\ compose.status = "failed"

(***************************************************************************)
(* C25: propagation of the counters.  Starting from fresh workers, whose   *)
(* counters are 0, add(v) on component-one leaves get() = v on             *)
(* component-one, component-two and component-three; an add(w) on          *)
(* component-two that follows raises component-two and component-three by  *)
(* w each and leaves component-one as it is.                               *)
(***************************************************************************)
CounterPropagation ==
    /\ \A v \in 1..MaxValue :
          (workers.invoked = <<[comp |-> "component-one", value |-> v]>>
              /\ workers.failed = <<>>)
             => \A c \in Components : Get(c, workers.state) = v
    /\ \A v, w \in 1..MaxValue :
          (workers.invoked = <<[comp |-> "component-one", value |-> v],
                               [comp |-> "component-two", value |-> w]>>
              /\ workers.failed = <<>>)
             => /\ Get("component-one", workers.state) = v
                /\ Get("component-two", workers.state) = v + w
                /\ Get("component-three", workers.state) = v + w

(***************************************************************************)
(* C26: several commands in one invocation.  main executes the commands    *)
(* that its arguments name strictly in the order of the arguments, each    *)
(* awaited to its completion before the next starts; without arguments it  *)
(* only lists the available commands and executes none.                    *)
(***************************************************************************)
CommandsInArgumentOrder ==
    /\ Len(cli.started) <= Len(cli.args)
    /\ \A i \in 1..Len(cli.started) : cli.started[i] = cli.args[i]
    /\ \A i \in 1..Len(cli.completed) : cli.completed[i] = cli.args[i]
    /\ Len(cli.completed) <= Len(cli.started)
    /\ Len(cli.started) <= Len(cli.completed) + 1
    /\ (cli.status = "returned" /\ cli.args # <<>>) =>
          cli.completed = cli.args /\ cli.listed = <<>>
    /\ (cli.args = <<>> /\ cli.status # "called") =>
          /\ cli.status = "returned"
          /\ cli.listed = <<"build", "clean">>
          /\ cli.started = <<>>

\* three commands, run to the end one after the other
CommandsInOrderWitness ==
    /\ cli.args = <<"clean", "build", "clean">>
    /\ cli.completed = <<"clean", "build", "clean">>
    /\ cli.status = "returned"

(***************************************************************************)
(* C27: malformed input is surfaced at once.  When the arguments of main   *)
(* hold a name that is no known command, the 'Command not found' error is  *)
(* raised before any command of the invocation has been executed,          *)
(* wherever the unknown name stands among the arguments.                   *)
(***************************************************************************)
UnknownCommandFirst ==
    (cli.status = "threw" /\ cli.error = "Command not found: biuld")
        => cli.started = <<>>

(***************************************************************************)
(* Vocabulary of the properties about the project.                         *)
(***************************************************************************)
\* the tasks of build and the buildStubComponent tasks
RebuildTasks ==
    Range(BuildCalls(ProjectDependencies))
        \cup Range(BuildStubs(AllDepsSorted(ProjectDependencies)))

\* a path in out or in the generated directory of a component
InOutOrGenerated(p) ==
    p.area \in {"out/build", "out/components", "out/stub"} \/ p.leaf = "generated"

\* clean has just returned
JustCleaned == cur.sinceClean = "cleaned"
\* the invocation under way is the first one after a clean
FirstAfterClean == cur.sinceClean = "first"

(***************************************************************************)
(* C28: the first build after clean rebuilds everything.  clean deletes    *)
(* only the out directory and the generated directory of every component;  *)
(* after it every task of build (generateBinding, rollupComponent,         *)
(* componentize, stubCompose of every component) and every                 *)
(* buildStubComponent task has an absent target, so the next invocation    *)
(* runs the body of each of those tasks it comes to and skips none; when   *)
(* it goes through, it has run them all.                                   *)
(***************************************************************************)
CleanRebuildsEverything ==
    /\ [](JustCleaned =>
            \A step \in RebuildTasks :
                \A p \in Range(TaskOf(step).targets) : fs[p].kind = "absent")
    /\ [](FirstAfterClean =>
            /\ \A i \in 1..Len(pipeline.trace) :
                  pipeline.trace[i].kind # "addStubDependency"
                     => pipeline.trace[i].what \in {"run", "failed"}
            /\ (pipeline.calls = <<>> /\ ~pipeline.aborted) =>
                  \A i \in 1..Len(pipeline.trace) :
                      pipeline.trace[i].what = "run")
    /\ [][(cur'.sinceClean = "cleaned" /\ cur'.commands # cur.commands) =>
            \A p \in ProjectPaths :
                IF InOutOrGenerated(p) THEN fs'[p].kind = "absent"
                ELSE fs'[p].kind = fs[p].kind /\ fs'[p].mtime = fs[p].mtime]_vars

\* everything was built, then cleaned, and the invocation after the clean
\* has built the stubs and every component again
CleanRebuildsWitness ==
    /\ FirstAfterClean
    /\ cur.commands = 3
    /\ pipeline.calls = <<>>
    /\ ~pipeline.aborted
    /\ \A step \in RebuildTasks : Happened(step, "run") \in Range(pipeline.trace)

ReferenceVerdict ==
    (Called /\ task.targets # <<>> /\ AllExist)
        => /\ verdict \in {"run", "skip"}
           /\ verdict = "run" <=>
                 \E p \in Targets, q \in Sources : FileNewerThan(q, p)
           /\ BodyCalls = (IF verdict = "run" THEN 1 ELSE 0)

\* only the second source is newer, and only than the second target
ReferenceVerdictWitness ==
    /\ pc = "awaiting"
    /\ task.targets = TargetPaths /\ task.sources = SourcePaths
    /\ AllExist
    /\ ~FileNewerThan(SourcePaths[1], TargetPaths[1])
    /\ ~FileNewerThan(SourcePaths[2], TargetPaths[1])
    /\ ~FileNewerThan(SourcePaths[1], TargetPaths[2])
    /\ FileNewerThan(SourcePaths[2], TargetPaths[2])
    /\ BodyCalls = 1

(***************************************************************************)
(* C31: an existing target directory with no regular file beneath it is    *)
(* not treated as absent.  Its watermark is the modification instant of    *)
(* the directory itself, so the task is up to date unless some source file *)
(* is strictly newer than that instant.                                    *)
(***************************************************************************)
\* a directory with no regular file beneath it
HollowDir(p) == fs[p].kind = "dir" /\ FileInstants(fs[p]) = {}

HollowTargetDirectory ==
    (/\ Called
     /\ task.targets # <<>>
     /\ \A p \in Targets : HollowDir(p)
     /\ \A q \in Sources : Exists(q))
        => /\ verdict \in {"run", "skip"}
           /\ verdict = "run" <=>
                 \E p \in Targets, q \in Sources :
                     \E t \in FileInstants(fs[q]) : t > fs[p].mtime

\* the target holds nothing but a subdirectory and is as new as the source:
\* the task is skipped
HollowTargetDirectoryWitness ==
    /\ pc = "returned"
    /\ verdict = "skip"
    /\ task.targets = <<TargetPaths[1]>>
    /\ fs[TargetPaths[1]] = Dir(2, <<[isDir |-> TRUE, mtime |-> MaxTime]>>)
    /\ task.sources = <<SourcePaths[1]>>
    /\ fs[SourcePaths[1]] = File(2)

(***************************************************************************)
(* C32: a failure to inspect an existing target is fatal.  When examining  *)
(* a target fails for another reason than the path not existing (a         *)
(* permission fault, say), runTask fails with that error, does not mark    *)
(* the task stale, and invokes neither the body nor the skip log.          *)
(***************************************************************************)
\* the check gets to target i, whose inspection fails: the targets before
\* it exist and no source is missing or newer than any of them
ExaminesFaultyTarget(i) ==
    /\ fs[task.targets[i]] = Fault
    /\ \A k \in 1..(i - 1) :
          /\ Exists(task.targets[k])
          /\ \A q \in Sources : Exists(q) /\ ~FileNewerThan(q, task.targets[k])

TargetFaultIsFatal ==
    \A i \in 1..Len(task.targets) :
        (Called /\ ExaminesFaultyTarget(i))
            => /\ pc = "threw" /\ verdict = "throw"
               /\ result = FsError("EACCES", task.targets[i])
               /\ events = <<>>

\* the second target cannot be inspected; the first one is up to date
TargetFaultWitness ==
    /\ pc = "threw"
    /\ task.targets = TargetPaths
    /\ fs[TargetPaths[1]] = File(2)
    /\ fs[TargetPaths[2]] = Fault
    /\ task.sources = <<SourcePaths[1]>>
    /\ fs[SourcePaths[1]] = File(1)
    /\ result = FsError("EACCES", TargetPaths[2])

(***************************************************************************)
(* C33: repeating updateRpcStubs is a no-op.  After one updateRpcStubs has *)
(* completed successfully, each tool having written the destinations named *)
(* in its arguments, a second updateRpcStubs with no change of the files   *)
(* in between invokes no task body: every buildStubComponent and every     *)
(* addStubDependency task is reported up to date.                          *)
(***************************************************************************)
RepeatedUpdateRpcStubsIsNoOp ==
    (cur.repeat /\ pipeline.command = <<"updateRpcStubs">>)
        => \A i \in 1..Len(pipeline.trace) : pipeline.trace[i].what = "skip"

(***************************************************************************)
(* C34: the composition chain of stubCompose.  Each compose invocation     *)
(* takes as its source wasm the output of the most recent compose that     *)
(* succeeded (the component's own wasm when none has succeeded yet), and   *)
(* the file finally copied to the target is that same most recent          *)
(* successful output; a stub that is skipped as not used changes neither   *)
(* the next source nor the file that is copied.                            *)
(***************************************************************************)
\* the output of the most recent compose that succeeded among the results
\* so far
RECURSIVE LastComposed(_)
LastComposed(k) ==
    IF k = 0 THEN "component.wasm"
    ELSE IF compose.results[k].code = Code(0)
         THEN "compose-" \o ToString(k) \o "-" \o compose.stubWasms[k] \o ".wasm"
         ELSE LastComposed(k - 1)

CompositionChain ==
    /\ (compose.status = "running" /\ compose.awaiting)
          => compose.srcWasm = LastComposed(Len(compose.results))
    /\ compose.status = "done"
          => compose.targetWasm = LastComposed(Len(compose.results))

\* the first stub is composed, the second is skipped as not used, and the
\* first composition is what is copied
CompositionChainWitness ==
    /\ compose.status = "done"
    /\ Len(compose.results) = 2
    /\ compose.results[1].code = Code(0)
    /\ compose.results[2].code = Code(1)
    /\ Len(compose.log) = 1
    /\ compose.targetWasm = "compose-1-component-two.wasm"

(***************************************************************************)
(* C35: the closure covers every composed stub.  For every component c and *)
(* every d in componentDependencies[c], the stub wasm that stubCompose(c)  *)
(* declares as a source (out/stub/d/stub.wasm) is a declared target of a   *)
(* buildStubComponent(d) task that updateRpcStubs runs, so that after a    *)
(* successful updateRpcStubs no source of a stubCompose is missing for     *)
(* lack of a stub build.                                                   *)
(***************************************************************************)
StubBuildOf(d) == Step("buildStubComponent", d, NoName, 1)

ClosureCoversComposedStubs ==
    pipeline.command = "updateRpcStubs" =>
        \A i \in 1..Len(pipeline.map) :
            \A j \in 1..Len(pipeline.map[i].deps) :
                LET c == pipeline.map[i].key
                    d == pipeline.map[i].deps[j]
                    stubWasm == Path("out/stub", d, "stub.wasm")
                IN  /\ stubWasm \in
                          Range(StubWasms(DepsOfComponent(pipeline.map, c)))
                    /\ StubBuildOf(d) \in
                          Range(Calls("updateRpcStubs", pipeline.map))
                    /\ stubWasm \in Range(TaskOf(StubBuildOf(d)).targets)
                    /\ PipelineFinished =>
                          Happened(StubBuildOf(d), "done") \in Range(pipeline.trace)

\* B is a dependency of the second entry only; updateRpcStubs has gone
\* through and the stub of B is built
ClosureCoversWitness ==
    /\ pipeline.command = "updateRpcStubs"
    /\ pipeline.map = <<Entry(NameA, <<NameD, NameC>>), Entry(NameD, <<NameB>>)>>
    /\ PipelineFinished
    /\ Happened(StubBuildOf(NameB), "done") \in Range(pipeline.trace)

(***************************************************************************)
(* C36: the promises of the executors settle exactly once.  For run and    *)
(* runCapture the outcome is fixed by whichever of the child's 'error' and *)
(* 'close' events is delivered first; an 'error' followed by a 'close'     *)
(* leaves the promise rejected with the spawn error, and data chunks that  *)
(* arrive in any interleaving of stdout and stderr before 'close' do not   *)
(* settle it.                                                              *)
(***************************************************************************)
SettlesOnce ==
    /\ [][promise.state # "pending" => promise' = promise]_vars
    /\ [][(child'.out # child.out \/ child'.err # child.err)
            => promise.state = "pending" /\ promise' = promise]_vars
    /\ [](child.state = "running" => promise.state = "pending")
    /\ [](child.state \in {"failed", "closed"} => promise.state # "pending")
    /\ []((child.state = "closed" /\ child.code = Code(-2))
            => /\ promise.state = "rejected"
               /\ promise.error.kind # "exit")

\* runCapture: the child could not be started, 'error' and then 'close'
\* were delivered, and the promise is rejected as 'error' left it
SettlesOnceWitness ==
    /\ child.fn = "runCapture"
    /\ child.state = "closed"
    /\ child.code = Code(-2)
    /\ promise.state = "rejected"
    /\ promise.error.kind # "exit"

(***************************************************************************)
(* C37: termination of the pipelines.  If every child process that was     *)
(* started eventually delivers 'close' or 'error' and every task body      *)
(* eventually settles, build and updateRpcStubs eventually complete, with  *)
(* success or with the first error; conversely, for as long as a child has *)
(* not closed the pipeline does nothing but wait for it: there is no       *)
(* timeout and no cancellation.                                            *)
(***************************************************************************)
\* the command has returned or has thrown
PipelineEnded ==
    /\ pipeline.running = {}
    /\ pipeline.calls = <<>> \/ pipeline.aborted

ChildLive == \E r \in pipeline.running : r.child

PipelineTerminates ==
    /\ <>[]PipelineEnded
    /\ [][ChildLive =>
            \E r \in pipeline.running : r.child /\ r \notin pipeline'.running]_vars
    /\ [](ChildLive => ~PipelineEnded)

\* build has gone through on the three components
PipelineTerminatesWitness ==
    /\ pipeline.command = "build"
    /\ PipelineEnded
    /\ ~pipeline.aborted
    /\ Len(pipeline.trace) = 2 * Len(BuildCalls(pipeline.map))
    /\ Len(pipeline.trace) > 0

(***************************************************************************)
(* C38: a failed downstream call leaves the caller's counter unchanged.    *)
(* In a component whose add(v) first delegates with blockingAdd to another *)
(* component and then adds v to its own state, a failure of the delegated  *)
(* call ends add without changing the caller's own counter; get never      *)
(* changes any counter.                                                    *)
(***************************************************************************)
FailedAddKeepsCounter ==
    /\ [][workers'.failed # workers.failed =>
            LET caller == workers'.failed[Len(workers'.failed)].comp
            IN  /\ caller \in {"component-one", "component-two"}
                /\ workers'.state[caller] = workers.state[caller]]_vars
    /\ [][workers'.got # workers.got => workers'.state = workers.state]_vars
    /\ [][(workers'.invoked = workers.invoked /\ workers'.failed = workers.failed)
            => workers'.state = workers.state]_vars

\* an add of 1 on component-two has returned, and an add of 2 on it has
\* failed after component-three had done its part
FailedAddWitness ==
    /\ workers.invoked = <<[comp |-> "component-two", value |-> 1]>>
    /\ workers.failed = <<[comp |-> "component-two", value |-> 2]>>
    /\ workers.state["component-two"] = 1
    /\ workers.state["component-three"] = 3

====
